---- MODULE Spec2Model ----
(***************************************************************************)
(* Verification model of git-client.                                       *)
(*                                                                         *)
(*  - the batched tree builder: Git.mktreeBatch / Git.cleanup              *)
(*    (src/lib/BlobObject.js, class Git) together with the                 *)
(*    `git mktree --batch` child it drives;                                *)
(*  - the tree model: TreeObject (src/lib/TreeObject.js lines 369-767).    *)
(*                                                                         *)
(* Strings that matter are modelled by their structure:                    *)
(*  - a git object hash is modelled by the content it addresses (git is    *)
(*    content-addressed: equal content <=> equal hash). A tree hash is the *)
(*    set of <<path, <<mode, blob id>>>> pairs of everything below it, a   *)
(*    subtree itself appearing as <<path, <<"040000", "">>>>;              *)
(*  - text read from / written to the child is a sequence of tokens, a     *)
(*    token being one hash or one newline.                                 *)
(***************************************************************************)
EXTENDS Integers, Sequences, FiniteSets, TLC

(***************************************************************************)
(* Bounds of the model.                                                    *)
(***************************************************************************)
MaxReq == 3        \* mktreeBatch calls made in one run
MaxKids == 2       \* `mktree --batch` children spawned in one run
MaxOps == 2        \* calls the caller of the tree API makes, getChildren apart

(***************************************************************************)
(* Text.                                                                   *)
(***************************************************************************)
EMPTY_TREE_HASH == {}

NL == [nl |-> TRUE, h |-> {}]

Tok(h) == [nl |-> FALSE, h |-> h]

\* the text of one hash, e.g. a TreeObject's .hash
Str(h) == <<Tok(h)>>

IsHash(s) == Len(s) = 1 /\ ~s[1].nl

RECURSIVE TrimStart(_)
TrimStart(s) ==
    IF s # <<>> /\ Head(s).nl THEN TrimStart(Tail(s)) ELSE s

RECURSIVE TrimEnd(_)
TrimEnd(s) ==
    IF s # <<>> /\ s[Len(s)].nl THEN TrimEnd(SubSeq(s, 1, Len(s) - 1)) ELSE s

\* String.prototype.trim: whitespace is removed at both ends only
Trim(s) == TrimEnd(TrimStart(s))

Includes(s, t) == \E i \in DOMAIN s : s[i] = t

(***************************************************************************)
(* Objects. A blob's hash is the set holding its id at the empty path.     *)
(***************************************************************************)
BlobHash(id) == {<< <<>>, <<"blob", id>> >>}

BlobId(h) == (CHOOSE e \in h : TRUE)[2][2]

\* one entry handed to mktreeBatch: { mode, type, hash, name }
Line(mode, type, hash, name) ==
    [mode |-> mode, type |-> type, hash |-> hash, name |-> name]

(***************************************************************************)
(* The `git mktree --batch` child: what it makes of its stdin.             *)
(* stdin is a stream of units, a unit being the text of one entry or one   *)
(* newline character.                                                      *)
(***************************************************************************)
NLc == [nl |-> TRUE, entry |-> Line("", "", <<>>, "")]

EntryText(e) == [nl |-> FALSE, entry |-> e]

\* the id of a blob that is not in the object store
MISSING == "unavailable"

\* an entry the child accepts: its hash is the text of exactly one hash, of
\* an object the store holds
ValidEntry(e) ==
    /\ IsHash(e.hash)
    /\ e.type = "blob" => BlobId(e.hash[1].h) # MISSING

\* the tree object made of one accepted entry
EntryContent(e) ==
    IF e.type = "blob"
    THEN {<< <<e.name>>, <<e.mode, BlobId(e.hash[1].h)>> >>}
    ELSE {<< <<e.name>>, <<e.mode, "">> >>}
         \cup {<< <<e.name>> \o p[1], p[2] >> : p \in e.hash[1].h}

RECURSIVE TreeContent(_)
TreeContent(entries) ==
    IF entries = <<>> THEN {}
    ELSE EntryContent(Head(entries)) \cup TreeContent(Tail(entries))

\* hash printed by mktree for a list of entries
MktreeHash(entries) == TreeContent(entries)


(***************************************************************************)
(* TreeObject (src/lib/TreeObject.js, lines 409-767) and BlobObject.       *)
(* A TreeObject is a record                                                *)
(*   dirty, hash      the fields of the same name; hash is a text          *)
(*   loaded, base     _baseChildren: loaded = FALSE is _baseChildren = null*)
(*   children         the own properties of _children, NULL being the null *)
(*                    that marks a deleted child; _children's prototype is *)
(*                    _baseChildren, see Child                             *)
(* A child object is held by value in the map that refers to it: no        *)
(* TreeObject is ever referred to from two maps.                           *)
(***************************************************************************)
NULL == [kind |-> "null"]

EmptyMap == [n \in {} |-> NULL]

Put(m, n, v) == [x \in DOMAIN m \cup {n} |-> IF x = n THEN v ELSE m[x]]

\* new BlobObject({ hash, mode })
BlobObject(hash, mode) == [kind |-> "blob", hash |-> hash, mode |-> mode]

\* new TreeObject({ hash }), lines 411-420
TreeObject(hash) ==
    [kind |-> "tree", dirty |-> FALSE, hash |-> hash, loaded |-> FALSE,
     base |-> EmptyMap, children |-> EmptyMap]

\* a tree made without a hash that has no hash and starts dirty
NewTreeDirty == [TreeObject(<<>>) EXCEPT !.dirty = TRUE]

\* new TreeObject({ }): the hash defaults to EMPTY_TREE_HASH
NewTree == TreeObject(Str(EMPTY_TREE_HASH))

\* getWrittenHash(), lines 430-432: `!this.dirty && this.hash || null`, the
\* empty text standing for null
GetWrittenHash(t) == IF ~t.dirty /\ t.hash # <<>> THEN t.hash ELSE <<>>

IsTree(e) == e.kind = "tree"

IsBlob(e) == e.kind = "blob"

\* names that `for (name in this._children)` enumerates
ChildNames(t) == DOMAIN t.children \cup (IF t.loaded THEN DOMAIN t.base ELSE {})

\* this._children[name], through the prototype chain; NULL when there is none
Child(t, name) ==
    IF name \in DOMAIN t.children THEN t.children[name]
    ELSE IF t.loaded /\ name \in DOMAIN t.base THEN t.base[name]
    ELSE NULL

\* a change made to the child object itself: it stays where it is held
SetInPlace(t, name, child) ==
    IF name \in DOMAIN t.children
    THEN [t EXCEPT !.children = Put(@, name, child)]
    ELSE [t EXCEPT !.base = Put(@, name, child)]

(***************************************************************************)
(* `git ls-tree <hash>` and the instantiation of its lines.                *)
(***************************************************************************)
\* git.createTree(entry) / git.createBlob(entry)
CreateTree(hash) == TreeObject(hash)

CreateBlob(hash, mode) == BlobObject(hash, mode)

\* the names listed by ls-tree for the tree with content h
LsNames(h) == {p[1][1] : p \in {q \in h : Len(q[1]) = 1}}

LsEntry(h, name) == CHOOSE p \in h : p[1] = <<name>>

\* content of the subtree `name` of h
SubContent(h, name) ==
    {<<Tail(p[1]), p[2]>> : p \in {q \in h : Len(q[1]) > 1 /\ q[1][1] = name}}

\* lines 492-498
BaseChildren(h) ==
    [name \in LsNames(h) |->
        LET e == LsEntry(h, name) IN
        IF e[2][1] = "040000"
        THEN CreateTree(Str(SubContent(h, name)))
        ELSE CreateBlob(Str(BlobHash(e[2][2])), e[2][1])]

\* whether _loadBaseChildren can read the tree: ls-tree fails on a text that
\* is not the hash of a tree
CanLoad(t) == IsHash(t.hash)

\* _loadBaseChildren, lines 434-504
LoadBaseChildren(t) ==
    IF t.hash = <<>> \/ t.hash = Str(EMPTY_TREE_HASH)
    THEN [t EXCEPT !.loaded = TRUE, !.base = EmptyMap]
    ELSE IF t.loaded THEN t
    ELSE [t EXCEPT !.loaded = TRUE, !.base = BaseChildren(t.hash[1].h),
                   !.children = EmptyMap]

\* the guard of every caller: if (this.hash && !this._baseChildren)
NeedsLoad(t) == t.hash # <<>> /\ ~t.loaded

Loaded(t) == IF NeedsLoad(t) THEN LoadBaseChildren(t) ELSE t

(***************************************************************************)
(* TreeObject.deleteChild, lines 514-519.                                  *)
(***************************************************************************)
DeleteChildOf(t, childName) ==
    IF Child(t, childName) # NULL
    THEN [t EXCEPT !.children = Put(@, childName, NULL), !.dirty = TRUE]
    ELSE t

(***************************************************************************)
(* TreeObject.getSubtree, lines 526-558: one round of the loop for `tree`  *)
(* = t and the segments left. Gives the tree as the walk leaves it, what   *)
(* is returned ("tree", "blob", "null", or "throw" for an exception) and   *)
(* whether a tree was created below, which marks every parent dirty.       *)
(***************************************************************************)
Walked(node, res, created) == [node |-> node, res |-> res, created |-> created]

\* a walk that marks dirty the parent of what it creates and no tree above
RECURSIVE WalkParentOnly(_, _, _)
WalkParentOnly(t, segments, create) ==
    IF ~IsTree(t) \/ (NeedsLoad(t) /\ ~CanLoad(t))
    THEN Walked(t, "throw", FALSE)
    ELSE
    LET tree == Loaded(t)
        subtreeName == Head(segments)
        rest == Tail(segments)
        found == Child(tree, subtreeName)
    IN
    IF found = NULL
    THEN IF ~create
         THEN Walked(tree, "null", FALSE)
         ELSE LET below == IF rest = <<>> THEN Walked(NewTree, "tree", FALSE)
                           ELSE WalkParentOnly(NewTree, rest, create)
              IN Walked([tree EXCEPT !.children = Put(@, subtreeName, below.node),
                                     !.dirty = TRUE],
                        below.res, TRUE)
    ELSE IF rest = <<>>
         THEN Walked(tree, found.kind, FALSE)
         ELSE LET below == WalkParentOnly(found, rest, create) IN
              Walked(SetInPlace(tree, subtreeName, below.node), below.res, below.created)

RECURSIVE Walk(_, _, _)
Walk(t, segments, create) ==
    IF ~IsTree(t) \/ (NeedsLoad(t) /\ ~CanLoad(t))
    THEN Walked(t, "throw", FALSE)
    ELSE
    LET tree == Loaded(t)
        subtreeName == Head(segments)
        rest == Tail(segments)
        found == Child(tree, subtreeName)
    IN
    IF found = NULL
    THEN IF ~create
         THEN Walked(tree, "null", FALSE)
         ELSE LET below == IF rest = <<>> THEN Walked(NewTree, "tree", FALSE)
                           ELSE Walk(NewTree, rest, create)
              IN Walked([tree EXCEPT !.children = Put(@, subtreeName, below.node),
                                     !.dirty = TRUE],
                        below.res, TRUE)
    ELSE IF rest = <<>>
         THEN Walked(tree, found.kind, FALSE)
         ELSE LET below == Walk(found, rest, create) IN
              Walked([SetInPlace(tree, subtreeName, below.node)
                         EXCEPT !.dirty = @ \/ below.created],
                     below.res, below.created)

\* the object a path leads to, looking through _children only
RECURSIVE NodeAt(_, _)
NodeAt(t, path) ==
    IF path = <<>> THEN t
    ELSE IF ~IsTree(t) THEN NULL
    ELSE NodeAt(Child(t, Head(path)), Tail(path))

\* t with the object at path replaced by f's value, in place
RECURSIVE Replaced(_, _, _)
Replaced(t, path, node) ==
    IF path = <<>> THEN node
    ELSE SetInPlace(t, Head(path), Replaced(Child(t, Head(path)), Tail(path), node))

(***************************************************************************)
(* minimatch, as used by MergeOptions (line 398, { dot: true }) and by     *)
(* the matcher loop (line 667). A pattern is its `!` and its segments      *)
(* between slashes; a path is its segments, a tree's path ending in the    *)
(* empty segment that follows its trailing slash.                          *)
(***************************************************************************)
Pattern(negate, segs) == [negate |-> negate, segs |-> segs]

GLOBSTAR == "**"

Dots == {".", ".."}

\* one segment against one pattern part other than **
PartMatches(part, seg) ==
    IF part = "*" THEN seg # "" /\ seg \notin Dots ELSE seg = part

\* Minimatch.matchOne, partial = false
RECURSIVE MatchOne(_, _)
MatchOne(file, pattern) ==
    IF file = <<>> \/ pattern = <<>>
    THEN IF file = <<>> /\ pattern = <<>> THEN TRUE
         ELSE IF file = <<>> THEN FALSE
         ELSE Len(file) = 1 /\ file[1] = ""
    ELSE IF Head(pattern) = GLOBSTAR
    THEN IF Len(pattern) = 1
         THEN \A i \in DOMAIN file : file[i] \notin Dots
         ELSE \E fr \in 0..(Len(file) - 1) :
                /\ \A i \in 1..fr : file[i] \notin Dots
                /\ MatchOne(SubSeq(file, fr + 1, Len(file)), Tail(pattern))
    ELSE /\ PartMatches(Head(pattern), Head(file))
         /\ MatchOne(Tail(file), Tail(pattern))

\* Minimatch.match: a negated pattern answers the opposite
Match(matcher, file) ==
    IF MatchOne(file, matcher.segs) THEN ~matcher.negate ELSE matcher.negate

\* path.join(basePath, childName) + (inputChild.isTree ? '/' : ''), line 659
ChildPath(basePath, childName, child) ==
    basePath \o <<childName>> \o (IF IsTree(child) THEN <<"">> ELSE <<>>)

(***************************************************************************)
(* MergeOptions, lines 395-407. files = <<>> stands for no filter          *)
(* (files absent, empty or ['**']): this.matchers stays undefined.         *)
(***************************************************************************)
MergeOptions(files, mode) == [matchers |-> files, mode |-> mode]

\* lines 401-403: the constructor throws on a mode it does not know
UnknownMode(mode) == mode # "overlay" /\ mode # "replace"

HasMatchers(options) == options.matchers # <<>>

\* a matcher loop without the `continue childrenLoop` of line 672
ExcludedNever(matchers, childPath) == FALSE

\* lines 662-687: what the matcher loop decides for one input child.
\* "skip": continue with the next child; "take": go on, the child matched;
\* "pending": go on with pendingChildMatch = true
RECURSIVE Excluded(_, _)
Excluded(matchers, childPath) ==
    /\ matchers # <<>>
    /\ \/ (~Match(Head(matchers), childPath) /\ Head(matchers).negate)
       \/ Excluded(Tail(matchers), childPath)

Matched(matchers, childPath) ==
    \E i \in DOMAIN matchers :
        Match(matchers[i], childPath) /\ ~matchers[i].negate

NegationsPossible(matchers) == \E i \in DOMAIN matchers : matchers[i].negate

Verdict(options, childPath, inputChild) ==
    IF ~HasMatchers(options) THEN "take"
    ELSE IF Excluded(options.matchers, childPath) THEN "skip"
    ELSE IF ~Matched(options.matchers, childPath) /\ IsBlob(inputChild) THEN "skip"
    ELSE IF (~Matched(options.matchers, childPath) \/ NegationsPossible(options.matchers))
            /\ IsTree(inputChild)
    THEN "pending"
    ELSE "take"

(***************************************************************************)
(* TreeObject.merge, lines 615-759. The value is the target and the input  *)
(* as the merge leaves them (the input and its subtrees get loaded).       *)
(* The children of the input are independent of one another: each touches  *)
(* its own entry of the target and the target's dirty flag, which is only  *)
(* ever raised. The dirty flag a sub-merge raises through                  *)
(* mergePromise.then (lines 733-739) is raised before the promise of       *)
(* merge() resolves, so the merge is taken as one step.                    *)
(***************************************************************************)
Merged(target, input) == [target |-> target, input |-> input]

\* child.dirty, undefined on a BlobObject
Dirty(e) == IsTree(e) /\ e.dirty

SamePathNever(baseChild, inputChild) == FALSE

\* lines 649-655
SamePath(baseChild, inputChild) ==
    /\ baseChild # NULL
    /\ ~Dirty(baseChild) /\ ~Dirty(inputChild)
    /\ baseChild.hash = inputChild.hash

\* lines 747-754
ClearUnmatched(this, input) ==
    LET gone == {n \in ChildNames(this) : Child(input, n) = NULL} IN
    [this EXCEPT !.children =
        [n \in DOMAIN this.children \cup gone |->
            IF n \in gone THEN NULL ELSE this.children[n]]]

RECURSIVE Merge(_, _, _, _)
RECURSIVE MergeChild(_, _, _, _, _)
RECURSIVE MergeChildren(_, _, _, _, _)

\* lines 636-744 for one childName
MergeChild(this, input, options, basePath, childName) ==
    LET inputChild == Child(input, childName)
        baseChild == Child(this, childName)
        childPath == ChildPath(basePath, childName, inputChild)
        verdict == Verdict(options, childPath, inputChild)
    IN
    IF inputChild = NULL \/ SamePath(baseChild, inputChild) \/ verdict = "skip"
    THEN Merged(this, input)
    ELSE IF IsBlob(inputChild)
    THEN Merged([this EXCEPT !.children = Put(@, childName, inputChild),
                             !.dirty = TRUE], input)
    ELSE IF baseChild = NULL \/ ~IsTree(baseChild) \/ options.mode = "replace"
    THEN IF verdict = "pending"
         THEN LET sub == Merge(NewTree, inputChild, options, childPath) IN
              Merged(IF sub.target.dirty
                     THEN [this EXCEPT !.children = Put(@, childName, sub.target),
                                       !.dirty = TRUE]
                     ELSE this,
                     SetInPlace(input, childName, sub.input))
         ELSE IF ~inputChild.dirty
         THEN Merged([this EXCEPT !.children = Put(@, childName, TreeObject(inputChild.hash)),
                                  !.dirty = TRUE], input)
         ELSE LET sub == Merge(NewTree, inputChild, options, childPath) IN
              Merged([this EXCEPT !.children = Put(@, childName, sub.target),
                                  !.dirty = TRUE],
                     SetInPlace(input, childName, sub.input))
    ELSE LET sub == Merge(baseChild, inputChild, options, childPath) IN
         Merged([SetInPlace(this, childName, sub.target)
                    EXCEPT !.dirty = @ \/ sub.target.dirty],
                SetInPlace(input, childName, sub.input))

MergeChildren(this, input, options, basePath, names) ==
    IF names = {} THEN Merged(this, input)
    ELSE LET childName == CHOOSE n \in names : TRUE
             one == MergeChild(this, input, options, basePath, childName)
         IN MergeChildren(one.target, one.input, options, basePath,
                          names \ {childName})

\* a merge that clears the children the input lacks whatever the mode
MergeClearing(this, input, options, basePath) ==
    LET target == Loaded(this)
        source == Loaded(input)
        looped == MergeChildren(target, source, options, basePath, ChildNames(source))
    IN Merged(ClearUnmatched(looped.target, looped.input), looped.input)

Merge(this, input, options, basePath) ==
    LET target == Loaded(this)
        source == Loaded(input)
        looped == MergeChildren(target, source, options, basePath, ChildNames(source))
    IN Merged(IF options.mode = "replace"
              THEN ClearUnmatched(looped.target, looped.input)
              ELSE looped.target,
              looped.input)

(***************************************************************************)
(* t.merge(t, {}), lines 615-759 with `input` the object `this` is: what   *)
(* the loop does to this._children it does to inputChildren, baseChild and *)
(* inputChild are one object at every name, no matcher is set and the mode *)
(* is 'overlay'.                                                           *)
(***************************************************************************)
RECURSIVE MergeSelf(_)
RECURSIVE MergeSelfChildren(_, _)

\* lines 636-744 for one childName
MergeSelfChild(this, childName) ==
    LET child == Child(this, childName) IN
    IF child = NULL \/ SamePath(child, child)
    THEN this
    ELSE IF IsBlob(child)
    THEN [this EXCEPT !.children = Put(@, childName, child), !.dirty = TRUE]
    ELSE LET sub == MergeSelf(child) IN
         [SetInPlace(this, childName, sub) EXCEPT !.dirty = @ \/ sub.dirty]

MergeSelfChildren(this, names) ==
    IF names = {} THEN this
    ELSE LET childName == CHOOSE n \in names : TRUE IN
         MergeSelfChildren(MergeSelfChild(this, childName), names \ {childName})

MergeSelf(this) ==
    LET tree == Loaded(this) IN MergeSelfChildren(tree, ChildNames(tree))

\* every tree below t (t included) that is not loaded has a hash ls-tree
\* can read
RECURSIVE Readable(_)
Readable(t) ==
    IF ~IsTree(t) THEN TRUE
    ELSE /\ t.loaded \/ t.hash = <<>> \/ CanLoad(t)
         /\ \A n \in ChildNames(t) : Readable(Child(t, n))

(***************************************************************************)
(* TreeObject.write, lines 561-613. write() is suspended at each           *)
(* `await child.write()` (line 576) and at `await mktreeBatch` (line 598): *)
(* a frame is one activation of write(), the stack the chain of            *)
(* activations from the tree write() was called on down to the one whose   *)
(* request is with the builder.                                            *)
(*   path   where the frame's tree is, from the root                       *)
(*   todo   the names the loop of line 568 has not dealt with yet          *)
(*   lines  the entries collected so far                                   *)
(* Children are enumerated in the order of NameOrder; mktree sorts the     *)
(* entries it is given, so the order does not show in the hash.            *)
(***************************************************************************)
NameOrder == <<"README.md", "key", "lib", "main.c", "secrets", "src">>

Ordered(names) == SelectSeq(NameOrder, LAMBDA n : n \in names)

Frame(path, t) == [path |-> path, todo |-> Ordered(ChildNames(t)), lines |-> <<>>]

\* a write() without the early return of lines 562-564
MustWriteAlways(t) == TRUE

\* line 562: whether write() has anything to do
MustWrite(t) == t.dirty

\* lines 575-595: the entry of one child that needs no write of its own,
\* <<>> when it adds none
EntryOf(name, child) ==
    IF IsTree(child)
    THEN IF child.hash = Str(EMPTY_TREE_HASH) THEN <<>>
         ELSE <<Line("040000", "tree", child.hash, name)>>
    ELSE <<Line(IF child.mode = "" THEN "100644" ELSE child.mode, "blob",
                child.hash, name)>>

\* lines 568-596, run from where the stack stands up to the next
\* mktreeBatch call: the top frame of the value has an empty todo
RECURSIVE Advance(_, _)
Advance(stack, root) ==
    LET top == stack[Len(stack)]
        t == NodeAt(root, top.path)
    IN
    IF top.todo = <<>> THEN stack
    ELSE LET name == Head(top.todo)
             child == Child(t, name)
         IN
         IF child # NULL /\ IsTree(child) /\ child.dirty
         THEN Advance(Append(stack, Frame(top.path \o <<name>>, child)), root)
         ELSE Advance([stack EXCEPT ![Len(stack)] =
                          [top EXCEPT !.todo = Tail(@),
                                      !.lines = @ \o (IF child = NULL THEN <<>>
                                                      ELSE EntryOf(name, child))]],
                      root)

\* a flush that copies a tombstone into _baseChildren instead of deleting
FlushedNoDelete(t) ==
    [t EXCEPT !.base = [n \in DOMAIN t.base \cup DOMAIN t.children |->
                           IF n \in DOMAIN t.children THEN t.children[n] ELSE t.base[n]],
              !.children = EmptyMap,
              !.dirty = FALSE]

\* lines 600-610: the overlay is folded into _baseChildren
Flushed(t) ==
    [t EXCEPT !.base = [n \in (DOMAIN t.base \cup DOMAIN t.children)
                               \ {m \in DOMAIN t.children : t.children[m] = NULL} |->
                           IF n \in DOMAIN t.children THEN t.children[n] ELSE t.base[n]],
              !.children = EmptyMap,
              !.dirty = FALSE]

\* lines 598-612 once the request is settled: a rejection is thrown at the
\* await and nothing after it runs. Without _baseChildren line 604 throws at
\* the first own entry of _children, after the hash was assigned.
FlushThrows(t) == ~t.loaded /\ t.children # EmptyMap

\* a write() that flushes whatever the builder answered
SettleAnyway(t, settlement) == Flushed([t EXCEPT !.hash = settlement.value])

Settle(t, settlement) ==
    IF ~settlement.ok THEN t
    ELSE IF FlushThrows(t) THEN [t EXCEPT !.hash = settlement.value]
    ELSE Flushed([t EXCEPT !.hash = settlement.value])

\* the parent's frame once `await child.write()` gave treeHash, lines 576-587
ChildWritten(frame, treeHash) ==
    [frame EXCEPT !.todo = Tail(@),
                  !.lines = @ \o (IF treeHash = Str(EMPTY_TREE_HASH) THEN <<>>
                                  ELSE <<Line("040000", "tree", treeHash, Head(frame.todo))>>)]

(***************************************************************************)
(* What a tree shows to a reader of it (getChildren, recursively): the     *)
(* paths below it with the mode and the blob of each, a directory with the *)
(* mode 040000. A tree that was never loaded shows what its hash names.    *)
(***************************************************************************)
RECURSIVE ContentOf(_)
ContentOf(t) ==
    IF ~t.loaded /\ t.children = EmptyMap
    THEN IF IsHash(t.hash) THEN t.hash[1].h ELSE {}
    ELSE UNION {
        LET child == Child(t, n) IN
        IF child = NULL THEN {}
        ELSE IF IsBlob(child)
        THEN {<< <<n>>, <<child.mode, BlobId(child.hash[1].h)>> >>}
        ELSE {<< <<n>>, <<"040000", "">> >>}
             \cup {<< <<n>> \o p[1], p[2] >> : p \in ContentOf(child)}
        : n \in ChildNames(t) }

\* the trees at and below t, each with its path
RECURSIVE Nodes(_, _)
Nodes(t, path) ==
    {<<path, t>>} \cup
    UNION { LET child == Child(t, n) IN
            IF child # NULL /\ IsTree(child) THEN Nodes(child, path \o <<n>>) ELSE {}
            : n \in ChildNames(t) }

(***************************************************************************)
(* State.                                                                  *)
(*   queue    Git._mktreeBatchQueue: jobs { id, output, error }; output    *)
(*            and error hold the chunks pushed so far, already joined      *)
(*   proc     Git._mktreeBatchProcess: 0 (null) or the child's number      *)
(*   timer    the idle timers: `handle` is Git._mktreeBatchTimeout, the id *)
(*            of the request whose call armed it (0 while undefined), and  *)
(*            `pending` the timers armed and neither fired nor cleared     *)
(*   kids     the `mktree --batch` children spawned so far                 *)
(*   calls    mktreeBatch calls suspended at `await this.mktree(...)`      *)
(*   requests the entries of every mktreeBatch call, in call order         *)
(*   settled  the settlements (resolve / reject) of jobs, in time order    *)
(*   uncaught what ended the host: the exception that escaped a callback,  *)
(*            or "shutdown"; "" while the host runs                        *)
(*   target, input   the two trees the caller works with                   *)
(*   held     the subtree the caller got from getSubtree and still holds:  *)
(*            the tree it is in and its path, <<>> when it holds none      *)
(*   stack    the frames of the write() in progress                        *)
(*   awaiting the id of the request the top frame awaits, 0 when none      *)
(*   lastOp   the last call the caller made, and what it returned          *)
(*   ops      the number of calls the caller made one after the other,     *)
(*            getChildren and buildTreeObject apart                        *)
(*   git      the Git instance exec is called on: gitDir, workTree and     *)
(*            indexFile as the constructor left them                       *)
(*   run      the call of exec in progress or done, and its child          *)
(*   cache    the hashes whose children the module's cache holds, as far   *)
(*            as the calls made without awaiting one another go            *)
(*   lsTrees  the runs of git ls-tree those calls started, each with the   *)
(*            call it suspends                                             *)
(*   mergeCall the merge() whose promise reactions are followed: where it  *)
(*            is, its options and the children its loop has yet to visit   *)
(*   subMerges the promises of the sub-merges its loop collected           *)
(*   jobs     the promise reaction jobs queued, first to run first         *)
(***************************************************************************)
VARIABLES queue, proc, timer, kids, calls, requests, settled, uncaught,
          target, input, held, stack, awaiting, lastOp, ops, git, run,
          cache, lsTrees, mergeCall, subMerges, jobs

builderVars == <<queue, proc, timer, kids, calls, requests, settled, uncaught>>

treeVars == <<target, input, held, stack, awaiting, lastOp, ops>>

execVars == <<git, run>>

loadVars == <<cache, lsTrees>>

mergeVars == <<mergeCall, subMerges, jobs>>

vars == <<queue, proc, timer, kids, calls, requests, settled, uncaught,
          target, input, held, stack, awaiting, lastOp, ops, git, run,
          cache, lsTrees, mergeCall, subMerges, jobs>>

KidIds == 1..MaxKids

NoKid ==
    [state |-> "none", stdin |-> <<>>, ended |-> FALSE, acc |-> <<>>,
     stdout |-> <<>>, stderr |-> <<>>, code |-> 0, exitSeen |-> FALSE,
     written |-> 0, printed |-> 0]

\* a child that has exited, whose exit the host has seen and whose output
\* has been read: nothing of it can matter any more
Gone ==
    [state |-> "exited", stdin |-> <<>>, ended |-> TRUE, acc |-> <<>>,
     stdout |-> <<>>, stderr |-> <<>>, code |-> 0, exitSeen |-> TRUE,
     written |-> 0, printed |-> 0]

Forget(k) ==
    IF k.state = "exited" /\ k.exitSeen /\ k.stdout = <<>> /\ k.stderr = <<>>
    THEN Gone ELSE k

Spawned == {c \in KidIds : kids[c].state # "none"}

\* the host is alive and no async function is between two microtasks
Alive == uncaught = ""

\* the promise a suspended write() awaits is settled: write() runs next
Resumable == awaiting # 0 /\ \E i \in DOMAIN settled : settled[i].id = awaiting

Idle == Alive /\ calls = <<>> /\ ~Resumable

(***************************************************************************)
(* Git.mktreeBatch, lines 278-289: the request as written to stdin,        *)
(*   children.map(fmt).join('\n') + '\n\n'                                 *)
(***************************************************************************)
RECURSIVE JoinLines(_)
JoinLines(entries) ==
    IF entries = <<>> THEN <<>>
    ELSE IF Len(entries) = 1 THEN <<EntryText(entries[1])>>
    ELSE <<EntryText(entries[1]), NLc>> \o JoinLines(Tail(entries))

RequestText(entries) == JoinLines(entries) \o <<NLc, NLc>>

NewJob(id) == [id |-> id, output |-> <<>>, error |-> <<>>]

QueuePush(q, job) == Append(q, job)

\* the job a callback of the child works on: this._mktreeBatchQueue[0]
CurrentJob(q) == q[1]

\* stdin.write on a stream that was ended, or whose reader is gone, raises
\* an 'error' event nobody listens to
WriteFault(k) ==
    IF k.ended THEN "write after end"
    ELSE IF k.state = "exited" THEN "EPIPE"
    ELSE ""

RearmedNoClear(t, id) == [handle |-> id, pending |-> t.pending \cup {id}]

\* lines 274-276 and 286: the timer this._mktreeBatchTimeout names is
\* cleared, and the one armed by the call of request id takes its place
Rearmed(t, id) ==
    [handle |-> id, pending |-> (t.pending \ {t.handle}) \cup {id}]

\* lines 274-289, on the child c that is this._mktreeBatchProcess
SubmitTo(c, id, entries) ==
    /\ kids' = [kids EXCEPT ![c].stdin = @ \o RequestText(entries),
                            ![c].written = @ + 1]
    /\ timer' = Rearmed(timer, id)
    /\ queue' = QueuePush(queue, NewJob(id))
    /\ uncaught' = WriteFault(kids[c])

(***************************************************************************)
(* Settlement of a job's promise.                                          *)
(***************************************************************************)
Resolved(job, value) ==
    [id |-> job.id, ok |-> TRUE, value |-> value, code |-> 0, error |-> <<>>]

RejectedNoCode(job, code) ==
    [id |-> job.id, ok |-> FALSE, value |-> Trim(job.output),
     code |-> 0, error |-> job.error]

Rejected(job, code) ==
    [id |-> job.id, ok |-> FALSE, value |-> Trim(job.output),
     code |-> code, error |-> job.error]

(***************************************************************************)
(* Git.mktreeBatch, lines 223-290.                                         *)
(* With no child (line 229) the call spawns one and is suspended at the    *)
(* await of line 230; otherwise it runs to the end without suspension.     *)
(* Leaves `settled` to the caller.                                         *)
(***************************************************************************)
NextKid == CHOOSE c \in KidIds \ Spawned : \A d \in KidIds \ Spawned : c <= d

CallMktreeBatch(entries) ==
    LET id == Len(requests) + 1 IN
    /\ requests' = Append(requests, entries)
    /\ IF proc = 0
       THEN /\ KidIds \ Spawned # {}
            /\ kids' = [kids EXCEPT ![NextKid].state = "running"]
            /\ calls' = Append(calls, [id |-> id, entries |-> entries, kid |-> NextKid])
            /\ UNCHANGED <<queue, proc, timer, uncaught>>
       ELSE /\ SubmitTo(proc, id, entries)
            /\ UNCHANGED <<calls, proc>>

\* the call resumes after `await this.mktree(...)`: lines 230-289
ResumeCall ==
    /\ Alive
    /\ calls # <<>>
    /\ LET call == Head(calls) IN
        /\ proc' = call.kid
        /\ SubmitTo(call.kid, call.id, call.entries)
    /\ calls' = Tail(calls)
    /\ UNCHANGED <<requests, settled, treeVars, execVars, loadVars, mergeVars>>

(***************************************************************************)
(* The callbacks installed on the child, and the idle timer.               *)
(***************************************************************************)
\* stdout 'data', lines 232-243. The chunk is the first k tokens the child
\* has printed and the host has not read yet.
StdoutData(c, k) ==
    /\ Idle
    /\ kids[c].state # "none"
    /\ k \in 1..Len(kids[c].stdout)
    /\ LET data == SubSeq(kids[c].stdout, 1, k) IN
        /\ kids' = [kids EXCEPT ![c] = Forget([@ EXCEPT !.stdout = SubSeq(@, k + 1, Len(@))])]
        /\ IF queue = <<>>
           THEN /\ uncaught' = "TypeError"
                /\ UNCHANGED <<queue, settled>>
           ELSE LET job == [CurrentJob(queue) EXCEPT !.output = @ \o data] IN
                /\ uncaught' = uncaught
                /\ IF Includes(data, NL)
                   THEN /\ queue' = Tail(queue)
                        /\ settled' = Append(settled, Resolved(job, Trim(job.output)))
                   ELSE /\ queue' = [queue EXCEPT ![1] = job]
                        /\ settled' = settled
    /\ UNCHANGED <<proc, timer, calls, requests, treeVars, execVars, loadVars, mergeVars>>

\* stderr 'data', lines 245-247
StderrData(c) ==
    /\ Idle
    /\ kids[c].state # "none"
    /\ kids[c].stderr # <<>>
    /\ kids' = [kids EXCEPT ![c] = Forget([@ EXCEPT !.stderr = <<>>])]
    /\ IF queue = <<>>
       THEN /\ uncaught' = "TypeError"
            /\ queue' = queue
       ELSE /\ uncaught' = uncaught
            /\ queue' = [queue EXCEPT ![1].error = @ \o kids[c].stderr]
    /\ UNCHANGED <<proc, timer, calls, requests, settled, treeVars, execVars, loadVars, mergeVars>>

\* 'exit', lines 249-269
ExitEvent(c) ==
    /\ Idle
    /\ kids[c].state = "exited"
    /\ ~kids[c].exitSeen
    /\ kids' = [kids EXCEPT ![c] = Forget([@ EXCEPT !.exitSeen = TRUE])]
    /\ proc' = 0
    /\ queue' = IF queue = <<>> THEN queue ELSE Tail(queue)
    /\ IF queue = <<>>
       THEN /\ uncaught' = IF kids[c].code = 0 THEN uncaught ELSE "TypeError"
            /\ settled' = settled
       ELSE LET currentJob == CurrentJob(queue) IN
            /\ uncaught' = uncaught
            /\ settled' = Append(settled,
                    IF kids[c].code = 0
                    THEN Resolved(currentJob, Trim(currentJob.output))
                    ELSE Rejected(currentJob, kids[c].code))
    /\ UNCHANGED <<timer, calls, requests, treeVars, execVars, loadVars, mergeVars>>

\* the idle timer of line 286: () => this._mktreeBatchProcess.stdin.end()
TimerFires ==
    /\ Idle
    /\ \E t \in timer.pending : timer' = [timer EXCEPT !.pending = @ \ {t}]
    /\ IF proc = 0
       THEN /\ uncaught' = "TypeError"
            /\ kids' = kids
       ELSE /\ uncaught' = uncaught
            /\ kids' = [kids EXCEPT ![proc].ended = TRUE]
    /\ UNCHANGED <<queue, proc, calls, requests, settled, treeVars, execVars, loadVars, mergeVars>>

(***************************************************************************)
(* Git.cleanup, lines 295-303, as the change it makes: the timer is        *)
(* cleared and the stdin of the batch child is ended.                      *)
(***************************************************************************)
Cleanup ==
    /\ timer' = [timer EXCEPT !.pending = @ \ {timer.handle}]
    /\ kids' = IF proc = 0 THEN kids ELSE [kids EXCEPT ![proc].ended = TRUE]

\* the hook registered at line 271, `() => this.cleanup`: its body is the
\* expression this.cleanup, the method is read and not called
CleanupHook == UNCHANGED <<timer, kids>>

\* the host is shut down (exit, SIGINT, ...) with a hook registered:
\* nodeCleanup runs the hook, and the host runs no callback afterwards
Shutdown ==
    /\ Idle
    /\ Spawned # {}
    /\ CleanupHook
    /\ uncaught' = "shutdown"
    /\ UNCHANGED <<queue, proc, calls, requests, settled, treeVars, execVars, loadVars, mergeVars>>

(***************************************************************************)
(* The child process: `git mktree --batch`. It reads stdin line by line;   *)
(* an empty line ends a batch and prints the hash of the tree made of the  *)
(* entries read since the last one; end of input ends it with code 0.      *)
(***************************************************************************)
\* git's exit after `fatal: ...`
Fatal(k) ==
    [k EXCEPT !.state = "exited", !.code = 128, !.stderr = @ \o <<"fatal">>,
              !.stdin = <<>>, !.acc = <<>>]

RECURSIVE FirstNewline(_)
FirstNewline(s) ==
    IF s = <<>> THEN 0
    ELSE IF Head(s).nl THEN 1
    ELSE LET r == FirstNewline(Tail(s)) IN IF r = 0 THEN 0 ELSE r + 1

ChildReadsLine(c) ==
    LET k == kids[c]
        n == FirstNewline(k.stdin)
        line == SubSeq(k.stdin, 1, n - 1)
        rest == SubSeq(k.stdin, n + 1, Len(k.stdin))
    IN
    /\ Alive
    /\ k.state = "running"
    /\ n > 0
    /\ kids' = [kids EXCEPT ![c] =
            IF line = <<>>
            THEN [k EXCEPT !.stdin = rest, !.acc = <<>>,
                           !.stdout = @ \o <<Tok(MktreeHash(k.acc)), NL>>,
                           !.printed = @ + 1]
            ELSE IF ValidEntry(line[1].entry)
            THEN [k EXCEPT !.stdin = rest, !.acc = Append(@, line[1].entry)]
            ELSE Fatal([k EXCEPT !.stdin = rest])]
    /\ UNCHANGED <<queue, proc, timer, calls, requests, settled, uncaught, treeVars, execVars, loadVars, mergeVars>>

\* end of input: the child exits with code 0
ChildEndsInput(c) ==
    /\ Alive
    /\ kids[c].state = "running"
    /\ kids[c].ended
    /\ kids[c].stdin = <<>>
    /\ kids' = [kids EXCEPT ![c] =
            [@ EXCEPT !.state = "exited", !.code = 0, !.acc = <<>>,
                      !.stdout = IF kids[c].acc = <<>> THEN @
                                 ELSE @ \o <<Tok(MktreeHash(kids[c].acc)), NL>>]]
    /\ UNCHANGED <<queue, proc, timer, calls, requests, settled, uncaught, treeVars, execVars, loadVars, mergeVars>>

\* the child dies over input it has been given (the object store cannot be
\* written, the child is killed at work)
ChildDies(c) ==
    /\ Alive
    /\ kids[c].state = "running"
    /\ kids[c].stdin # <<>>
    /\ kids' = [kids EXCEPT ![c] = Fatal(@)]
    /\ UNCHANGED <<queue, proc, timer, calls, requests, settled, uncaught, treeVars, execVars, loadVars, mergeVars>>

(***************************************************************************)
(* The caller of the builder.                                              *)
(***************************************************************************)
BlobEntry(name, id) == Line("100644", "blob", Str(BlobHash(id)), name)

\* the entry lists a caller submits; the last names an object the store
\* does not hold, which mktree refuses
EntryLists ==
    { <<>>,
      <<BlobEntry("kitten.jpg", "A")>>,
      <<BlobEntry("cage.jpg", "B")>>,
      <<BlobEntry("cage.jpg", MISSING)>> }

Submit(entries) ==
    /\ Alive
    /\ Len(requests) < MaxReq
    /\ CallMktreeBatch(entries)
    /\ UNCHANGED <<settled, treeVars, execVars, loadVars, mergeVars>>

InitBuilder ==
    /\ queue = <<>>
    /\ proc = 0
    /\ timer = [handle |-> 0, pending |-> {}]
    /\ kids = [c \in KidIds |-> NoKid]
    /\ calls = <<>>
    /\ requests = <<>>
    /\ settled = <<>>
    /\ uncaught = ""

BuilderStep ==
    \/ ResumeCall
    \/ \E c \in KidIds : \E k \in 1..4 : StdoutData(c, k)
    \/ \E c \in KidIds : StderrData(c)
    \/ \E c \in KidIds : ExitEvent(c)
    \/ TimerFires
    \/ \E c \in KidIds : ChildReadsLine(c)
    \/ \E c \in KidIds : ChildEndsInput(c)

(***************************************************************************)
(* The caller of the tree API. It works on two trees, may hold one subtree *)
(* it got from getSubtree, and makes its next call when the last one has   *)
(* returned.                                                               *)
(***************************************************************************)
Roots == {"target", "input"}

RootOf(r) == IF r = "target" THEN target ELSE input

NoHandle == [root |-> "target", path |-> <<>>]

\* the places a call can be made on: a root, or the subtree held
Places(r) ==
    {<<>>} \cup (IF held.root = r /\ held.path # <<>> THEN {held.path} ELSE {})

\* a call on the root may replace the object the handle refers to
HeldAfter(r, path) ==
    IF path = <<>> /\ held.root = r THEN NoHandle ELSE held

NoOptions == MergeOptions(<<>>, "overlay")

Call(op, r, path, name, options) ==
    [op |-> op, root |-> r, path |-> path, name |-> name, options |-> options]

Brief(call) ==
    [op |-> call.op, root |-> call.root, path |-> call.path, name |-> call.name,
     options |-> call.options]

\* the record of a call: what was called, on what (pre), what it gave, and
\* the call before it
Done(call, pre, outcome, value) ==
    [op |-> call.op, root |-> call.root, path |-> call.path, name |-> call.name,
     options |-> call.options, pre |-> pre, outcome |-> outcome, value |-> value,
     prev |-> Brief(lastOp)]

Quiescent == Idle /\ stack = <<>> /\ ops < MaxOps

SetRoot(r, t) ==
    /\ target' = IF r = "target" THEN t ELSE target
    /\ input' = IF r = "input" THEN t ELSE input

\* await tree.getChildren(), lines 506-512, on a root not read yet
GetChildren(r) ==
    /\ Quiescent
    /\ NeedsLoad(RootOf(r)) /\ CanLoad(RootOf(r))
    /\ SetRoot(r, LoadBaseChildren(RootOf(r)))
    /\ UNCHANGED <<builderVars, execVars, loadVars, mergeVars, held, stack, awaiting, lastOp, ops>>

\* await tree.getSubtree(subtreePath, create), lines 521-559
GetSubtree(r, subtreePath, create) ==
    LET walk == Walk(RootOf(r), subtreePath, create) IN
    /\ Quiescent
    /\ SetRoot(r, walk.node)
    /\ held' = IF walk.res = "tree" THEN [root |-> r, path |-> subtreePath]
               ELSE HeldAfter(r, <<>>)
    /\ lastOp' = Done(Call("getSubtree", r, subtreePath,
                           IF create THEN "create" ELSE "", NoOptions),
                      RootOf(r), walk.res, <<>>)
    /\ ops' = ops + 1
    /\ UNCHANGED <<builderVars, execVars, loadVars, mergeVars, stack, awaiting>>

\* the path that names the receiver
Dot == <<".">>

\* await tree.getSubtree('.', false, returnStack), lines 521-524: with
\* returnStack the list [this]; without it the name `truee`, which nothing
\* defines, is evaluated and the call throws a ReferenceError
GetSubtreeDot(r, returnStack) ==
    /\ Quiescent
    /\ lastOp' = Done(Call("getSubtree", r, Dot, IF returnStack THEN "stack" ELSE "",
                           NoOptions),
                      RootOf(r), IF returnStack THEN "stack" ELSE "throw", <<>>)
    /\ ops' = ops + 1
    /\ UNCHANGED <<builderVars, execVars, loadVars, mergeVars, target, input, held, stack, awaiting>>

\* tree.deleteChild(childName), lines 514-519
DeleteChild(r, path, childName) ==
    LET tree == NodeAt(RootOf(r), path) IN
    /\ Quiescent
    /\ path \in Places(r)
    /\ SetRoot(r, Replaced(RootOf(r), path, DeleteChildOf(tree, childName)))
    /\ held' = HeldAfter(r, path)
    /\ lastOp' = Done(Call("deleteChild", r, path, childName, NoOptions), tree, "ok", <<>>)
    /\ ops' = ops + 1
    /\ UNCHANGED <<builderVars, execVars, loadVars, mergeVars, stack, awaiting>>

\* await tree.merge(input, options), lines 615-759, tree in the target.
\* The children of both trees are loaded (lines 617-623) before the options
\* are made (lines 627-629), where an unknown mode throws.
MergeOp(path, options) ==
    LET tree == NodeAt(target, path)
        merged == IF UnknownMode(options.mode)
                  THEN Merged(Loaded(tree), Loaded(input))
                  ELSE Merge(tree, input, options, <<>>)
    IN
    /\ Quiescent
    /\ path \in Places("target")
    /\ Readable(tree) /\ Readable(input)
    /\ target' = Replaced(target, path, merged.target)
    /\ input' = merged.input
    /\ held' = IF held.root = "input" THEN NoHandle ELSE HeldAfter("target", path)
    /\ lastOp' = Done(Call("merge", "target", path, "", options), tree,
                      IF UnknownMode(options.mode) THEN "throw" ELSE "ok", <<>>)
    /\ ops' = ops + 1
    /\ UNCHANGED <<builderVars, execVars, loadVars, mergeVars, stack, awaiting>>

\* await tree.merge(tree, {}), lines 615-759, tree merged with itself
MergeSelfOp(r, path) ==
    LET tree == NodeAt(RootOf(r), path) IN
    /\ Quiescent
    /\ path \in Places(r)
    /\ Readable(tree)
    /\ SetRoot(r, Replaced(RootOf(r), path, MergeSelf(tree)))
    /\ held' = HeldAfter(r, path)
    /\ lastOp' = Done(Call("mergeSelf", r, path, "", NoOptions), tree, "ok", <<>>)
    /\ ops' = ops + 1
    /\ UNCHANGED <<builderVars, execVars, loadVars, mergeVars, stack, awaiting>>

(***************************************************************************)
(* TreeRoot (src/unnamed/part_000). A flat tree is a mapping from paths to *)
(* { mode, type, hash }, here the set of <<path, <<mode, blob id>>>>.      *)
(***************************************************************************)
\* TreeRoot.buildTreeObject(tree), lines 25-41: a new TreeObject, and for
\* each path a chain of new TreeObjects down to the entry, every one set
\* as a plain property of its parent (lines 34 and 37). `own` holds the
\* properties by path; hash, dirty and _children are as the constructor
\* left them.
BuildTreeObject(tree) ==
    [kind |-> NewTree.kind, hash |-> NewTree.hash, dirty |-> NewTree.dirty,
     loaded |-> NewTree.loaded, base |-> NewTree.base,
     children |-> NewTree.children, own |-> tree]

\* TreeRoot.read(treeish, git), lines 6-23, for the tree with content h.
\* `ls-tree --full-tree -r` prints one line for each blob; exec gives the
\* text trimmed, and split('\n') gives one element for each line, and one
\* empty element for the empty text. On an element the pattern of line 2
\* does not match, exec() is null and the destructuring of line 17 throws.
\* Without the second argument the default `git = git` reads the parameter
\* before it is initialised and throws.
ReadTree(h, withGit) ==
    LET lines == {e \in h : e[2][1] # "040000"}
        treeOutput == IF lines = {} THEN {<<>>} ELSE lines
    IN IF ~withGit \/ <<>> \in treeOutput
       THEN [outcome |-> "throw", tree |-> {}]
       ELSE [outcome |-> "ok", tree |-> treeOutput]

\* target = TreeRoot.buildTreeObject(tree), before any other call
BuildOp(tree) ==
    /\ Quiescent
    /\ ops = 0 /\ lastOp.op = "none"
    /\ target' = BuildTreeObject(tree)
    /\ lastOp' = Done(Call("buildTreeObject", "target", <<>>, "", NoOptions),
                      NULL, "ok", <<>>)
    /\ UNCHANGED <<builderVars, execVars, loadVars, mergeVars, input, held, stack, awaiting, ops>>

\* await TreeRoot.read(hash, git), hash being what write() has just given;
\* the record of the call has the flat tree it returned as `tree`
ReadOp(withGit) ==
    LET read == ReadTree(lastOp.value[1].h, withGit)
        done == Done(Call("read", "target", <<>>, "", NoOptions),
                     NodeAt(target, lastOp.path), read.outcome, <<>>)
    IN
    /\ Quiescent
    /\ lastOp.op = "write" /\ lastOp.outcome = "ok"
    /\ IsHash(lastOp.value)
    /\ lastOp' = [f \in DOMAIN done \cup {"tree"} |->
                     IF f = "tree" THEN read.tree ELSE done[f]]
    /\ ops' = ops + 1
    /\ UNCHANGED <<builderVars, execVars, loadVars, mergeVars, target, input, held, stack, awaiting>>

(***************************************************************************)
(* TreeObject.write, lines 561-613, on a tree in the target.               *)
(***************************************************************************)
\* up to the first mktreeBatch call (or the return of line 563)
WriteCall(path) ==
    LET tree == NodeAt(target, path)
        call == Call("write", "target", path, "", NoOptions)
    IN
    /\ Quiescent
    /\ path \in Places("target")
    /\ ops' = ops + 1
    /\ UNCHANGED <<target, input, held, execVars, loadVars, mergeVars>>
    /\ IF ~MustWrite(tree)
       THEN /\ lastOp' = Done(call, tree, "ok", tree.hash)
            /\ UNCHANGED <<builderVars, stack, awaiting>>
       ELSE LET frames == Advance(<<Frame(path, tree)>>, target) IN
            /\ Len(requests) < MaxReq
            /\ stack' = frames
            /\ awaiting' = Len(requests) + 1
            /\ CallMktreeBatch(frames[Len(frames)].lines)
            /\ lastOp' = Done(call, tree, "pending", <<>>)
            /\ UNCHANGED settled

\* the settlement the frame on top of the stack awaits
Settlement ==
    settled[CHOOSE i \in DOMAIN settled : settled[i].id = awaiting]

\* from the settlement of the awaited request (line 598) up to the next
\* mktreeBatch call, or to the end of the write() the caller called
WriteResume ==
    /\ Alive
    /\ Resumable
    /\ LET top == stack[Len(stack)]
           tree == NodeAt(target, top.path)
           written == Replaced(target, top.path, Settle(tree, Settlement))
       IN
       /\ target' = written
       /\ UNCHANGED <<input, held, ops, execVars, loadVars, mergeVars>>
       /\ IF ~Settlement.ok \/ FlushThrows(tree)
          THEN /\ stack' = <<>>
               /\ awaiting' = 0
               /\ lastOp' = [lastOp EXCEPT !.outcome =
                                 IF Settlement.ok THEN "throw" ELSE "rejected"]
               /\ UNCHANGED builderVars
          ELSE IF Len(stack) = 1
          THEN /\ stack' = <<>>
               /\ awaiting' = 0
               /\ lastOp' = [lastOp EXCEPT !.outcome = "ok", !.value = Settlement.value]
               /\ UNCHANGED builderVars
          ELSE LET parent == ChildWritten(stack[Len(stack) - 1], Settlement.value)
                   frames == Advance(Append(SubSeq(stack, 1, Len(stack) - 2), parent),
                                     written)
               IN
               /\ Len(requests) < MaxReq
               /\ stack' = frames
               /\ awaiting' = Len(requests) + 1
               /\ CallMktreeBatch(frames[Len(frames)].lines)
               /\ UNCHANGED <<settled, lastOp>>

\* tree.deleteChild(childName), lines 514-519, called while the write() of
\* tree is suspended at its own mktreeBatch call (line 598, the writes of
\* the trees below it done), on a child the tree has. The record of the
\* write notes the name as `during`.
DeleteChildDuringWrite(childName) ==
    LET path == stack[1].path
        tree == NodeAt(target, path)
    IN
    /\ Idle
    /\ Len(stack) = 1
    /\ "during" \notin DOMAIN lastOp
    /\ Child(tree, childName) # NULL
    /\ target' = Replaced(target, path, DeleteChildOf(tree, childName))
    /\ lastOp' = [f \in DOMAIN lastOp \cup {"during"} |->
                     IF f = "during" THEN childName ELSE lastOp[f]]
    /\ UNCHANGED <<builderVars, execVars, loadVars, mergeVars, input, held, stack, awaiting, ops>>

(***************************************************************************)
(* Git.exec and Git.cliOptionsToArgs (src/lib/BlobObject.js, 312-579).     *)
(*                                                                         *)
(* A JavaScript value is its type and its text (what toString gives); an   *)
(* array has its elements as well. An option map is the sequence of its    *)
(* entries in the order `for (key in options)` enumerates them. An         *)
(* argument of exec is a string, a number or an option map.                *)
(***************************************************************************)
JsValue(t, s) == [t |-> t, s |-> s, items |-> <<>>]

JsString(s) == JsValue("string", s)

JsTrue == JsValue("boolean", "true")

JsFalse == JsValue("boolean", "false")

JsUndefined == JsValue("undefined", "undefined")

JsArray(items) == [t |-> "array", s |-> "", items |-> items]

\* ToBoolean of a value
Truthy(v) ==
    /\ v.t \notin {"null", "undefined"}
    /\ v \notin {JsFalse, JsString(""), JsValue("number", "0")}

Entry(key, val) == [key |-> key, val |-> val]

ArgString(s) == [t |-> "string", s |-> s, map |-> <<>>]

ArgNumber(s) == [t |-> "number", s |-> s, map |-> <<>>]

ArgMap(entries) == [t |-> "object", s |-> "", map |-> entries]

\* key in map
Has(map, key) == \E i \in DOMAIN map : map[i].key = key

\* map[key], undefined when there is none
Get(map, key) ==
    IF Has(map, key) THEN map[CHOOSE i \in DOMAIN map : map[i].key = key].val
    ELSE JsUndefined

\* delete map[key], for every key of keys
Without(map, keys) == SelectSeq(map, LAMBDA e : e.key \notin keys)

(***************************************************************************)
(* Git.cliOptionsToArgs, lines 554-579.                                    *)
(***************************************************************************)
ArgsOfValLong(key, val) ==
    IF val = JsTrue THEN <<"--" \o key>>
    ELSE IF val # JsFalse /\ val.t \notin {"null", "undefined"}
    THEN <<"--" \o key \o "=" \o val.s>>
    ELSE <<>>

ArgsOfValFlag(key, val) ==
    IF Len(key) = 1
    THEN IF val # JsFalse /\ val.t \notin {"null", "undefined"}
         THEN <<"-" \o key>>
         ELSE <<>>
    ELSE IF val = JsTrue THEN <<"--" \o key>>
         ELSE IF val # JsFalse /\ val.t \notin {"null", "undefined"}
         THEN <<"--" \o key \o "=" \o val.s>>
         ELSE <<>>

\* lines 562-574, for one val of one key; a val that is not true is pushed
\* when val !== false && val !== null && val !== undefined
ArgsOfVal(key, val) ==
    IF Len(key) = 1
    THEN IF val = JsTrue THEN <<"-" \o key>>
         ELSE IF val # JsFalse /\ val.t \notin {"null", "undefined"}
         THEN <<"-" \o key, val.s>>
         ELSE <<>>
    ELSE IF val = JsTrue THEN <<"--" \o key>>
         ELSE IF val # JsFalse /\ val.t \notin {"null", "undefined"}
         THEN <<"--" \o key \o "=" \o val.s>>
         ELSE <<>>

RECURSIVE ArgsOfVals(_, _)
ArgsOfVals(key, vals) ==
    IF vals = <<>> THEN <<>>
    ELSE ArgsOfVal(key, Head(vals)) \o ArgsOfVals(key, Tail(vals))

\* line 561: the vals of a key are Array.isArray(option) ? option : [option]
RECURSIVE CliOptionsToArgs(_)
CliOptionsToArgs(options) ==
    IF options = <<>> THEN <<>>
    ELSE LET option == Head(options).val IN
         ArgsOfVals(Head(options).key,
                    IF option.t = "array" THEN option.items ELSE <<option>>)
         \o CliOptionsToArgs(Tail(options))

(***************************************************************************)
(* Git.exec, lines 312-548: the scan of the arguments. The state of the    *)
(* scan is `command` ("" while undefined), commandArgs, the fields of      *)
(* execOptions that decide what is run and commandEnv.GIT_INDEX_FILE.      *)
(***************************************************************************)
\* the keys lines 347-413 extract and delete
HandledKeys ==
    {"$gitDir", "$workTree", "$indexFile", "$nullOnError", "$spawn", "$shell",
     "$cwd", "$env", "$preserveEnv", "$options", "$passthrough", "$wait"}

\* case 'object', lines 340-418: the keys are taken from a clone of the map
ScanObject(map, st) ==
    [st EXCEPT
        !.gitDir = IF Has(map, "$gitDir") THEN Get(map, "$gitDir") ELSE @,
        !.workTree = IF Has(map, "$workTree") THEN Get(map, "$workTree") ELSE @,
        !.indexFile = IF Has(map, "$indexFile") THEN Get(map, "$indexFile") ELSE @,
        !.nullOnError = IF Has(map, "$nullOnError") THEN Get(map, "$nullOnError") ELSE @,
        !.spawn = IF Truthy(Get(map, "$passthrough")) THEN JsTrue
                  ELSE IF Has(map, "$spawn") THEN Get(map, "$spawn") ELSE @,
        !.shell = IF Has(map, "$shell") THEN Get(map, "$shell") ELSE @,
        !.commandArgs = @ \o CliOptionsToArgs(Without(map, HandledKeys))]

\* the loop of lines 329-422. `while (arg = args.shift())` ends at the
\* first argument that is falsy: the number 0 or the empty string. The
\* first string is the command (lines 331-335); other strings and numbers
\* are pushed (lines 337-339).
RECURSIVE Scan(_, _)
Scan(args, st) ==
    LET arg == Head(args) IN
    IF args = <<>> THEN st
    ELSE IF (arg.t = "string" /\ arg.s = "") \/ (arg.t = "number" /\ arg.s = "0")
    THEN st
    ELSE Scan(Tail(args),
              IF arg.t = "object" THEN ScanObject(arg.map, st)
              ELSE IF arg.t = "string" /\ st.command = ""
              THEN [st EXCEPT !.command = arg.s]
              ELSE [st EXCEPT !.commandArgs = Append(@, arg.s)])

\* what exec runs for the arguments it is given: the argv after `git`, the
\* GIT_INDEX_FILE of the environment, the branch of lines 456-547 taken and
\* whether an error resolves with null
Exec(config, args) ==
    LET start == [command |-> "",
                  commandArgs |-> <<>>,
                  gitDir |-> config.gitDir,
                  workTree |-> config.workTree,
                  indexFile |-> IF Truthy(config.indexFile) THEN config.indexFile
                                ELSE JsUndefined,
                  nullOnError |-> JsUndefined,
                  spawn |-> JsUndefined,
                  shell |-> JsUndefined]
        st == Scan(args, start)
        commandArgs == IF st.command # "" THEN <<st.command>> \o st.commandArgs
                       ELSE st.commandArgs
        gitOptions ==
            (IF Truthy(st.gitDir) THEN <<Entry("git-dir", st.gitDir)>> ELSE <<>>)
            \o (IF Truthy(st.workTree) THEN <<Entry("work-tree", st.workTree)>>
                ELSE <<>>)
    IN [argv |-> CliOptionsToArgs(gitOptions) \o commandArgs,
        indexFile |-> st.indexFile,
        mode |-> IF Truthy(st.spawn) THEN "spawn"
                 ELSE IF Truthy(st.shell) THEN "shell" ELSE "execFile",
        nullOnError |-> Truthy(st.nullOnError)]

(***************************************************************************)
(* The call and its child. Output is text in tokens, a token being a word, *)
(* a space or a newline; spaces and newlines are whitespace.               *)
(***************************************************************************)
Sp == [nl |-> TRUE, h |-> {" "}]

Word(w) == [nl |-> FALSE, h |-> {w}]

NoRun ==
    [state |-> "none", args |-> <<>>, callerArgs |-> <<>>, argv |-> <<>>,
     indexFile |-> JsUndefined, mode |-> "execFile", nullOnError |-> FALSE,
     returned |-> "none", capture |-> FALSE, trimmed |-> FALSE,
     input |-> <<>>, stdin |-> <<>>, ended |-> FALSE,
     child |-> [code |-> 0, stdout |-> <<>>, stderr |-> <<>>],
     outcome |-> "none",
     value |-> [null |-> FALSE, text |-> <<>>],
     error |-> [code |-> 0, stderr |-> <<>>, output |-> <<>>],
     delivered |-> <<>>]

\* git.exec(...args), lines 312-547 up to the start of the child. In spawn
\* mode the process is returned, otherwise a promise. The option maps are
\* cloned (line 343): the caller's are left as they were. No callback of
\* the caller is installed on the child: delivered stays empty.
ExecCall(args) ==
    LET plan == Exec(git, args) IN
    /\ run.state = "none"
    /\ run' = [NoRun EXCEPT
                  !.state = "running",
                  !.args = args,
                  !.callerArgs = args,
                  !.argv = plan.argv,
                  !.indexFile = plan.indexFile,
                  !.mode = plan.mode,
                  !.nullOnError = plan.nullOnError,
                  !.returned = IF plan.mode = "spawn" THEN "process" ELSE "promise",
                  !.outcome = IF plan.mode = "spawn" THEN "none" ELSE "pending"]
    /\ UNCHANGED <<builderVars, treeVars, loadVars, mergeVars, git>>

\* process.captureOutput(), lines 477-510, called while the child runs
CaptureOutput ==
    /\ run.state = "running"
    /\ run.mode = "spawn"
    /\ ~run.capture
    /\ run' = [run EXCEPT !.capture = TRUE, !.outcome = "pending"]
    /\ UNCHANGED <<builderVars, treeVars, loadVars, mergeVars, git>>

\* the child was told to read its standard input
ReadsStdin(argv) == Includes(argv, "--stdin")

\* the child ends with an exit code, having printed stdout and stderr. One
\* that reads its standard input does not end well before the input ends
ChildExits(child) ==
    /\ run.state = "running"
    /\ (ReadsStdin(run.argv) /\ child.code = 0) => run.ended
    /\ run' = [run EXCEPT !.state = "exited", !.child = child]
    /\ UNCHANGED <<builderVars, treeVars, loadVars, mergeVars, git>>

\* the callback of execFile / child_process.exec (lines 519-545), or the
\* 'exit' listener of captureOutput (lines 490-500)
ExitCallback ==
    LET child == run.child
        failure == [code |-> child.code, stderr |-> child.stderr, output |-> child.stdout]
    IN
    /\ run.state = "exited"
    /\ run' =
         IF run.mode = "spawn"
         THEN IF ~run.capture THEN [run EXCEPT !.state = "done"]
              ELSE IF child.code = 0
              THEN [run EXCEPT !.state = "done", !.outcome = "resolved",
                               !.value = [null |-> FALSE,
                                          text |-> IF run.trimmed THEN Trim(child.stdout)
                                                   ELSE child.stdout]]
              ELSE [run EXCEPT !.state = "done", !.outcome = "rejected",
                               !.error = failure]
         ELSE IF child.code # 0
         THEN IF run.nullOnError
              THEN [run EXCEPT !.state = "done", !.outcome = "resolved",
                               !.value = [null |-> TRUE, text |-> <<>>]]
              ELSE [run EXCEPT !.state = "done", !.outcome = "rejected",
                               !.error = [failure EXCEPT !.output = <<>>]]
         ELSE [run EXCEPT !.state = "done", !.outcome = "resolved",
                          !.value = [null |-> FALSE, text |-> Trim(child.stdout)]]
    /\ UNCHANGED <<builderVars, treeVars, loadVars, mergeVars, git>>

(***************************************************************************)
(* The instances and the calls of exec.                                    *)
(***************************************************************************)
\* new Git({ gitDir, workTree, indexFile }), lines 53-69: a field is set
\* only when its option is truthy
Config(gitDir, workTree, indexFile) ==
    [gitDir |-> IF gitDir = "" THEN JsUndefined ELSE JsString(gitDir),
     workTree |-> IF workTree = "" THEN JsUndefined ELSE JsString(workTree),
     indexFile |-> IF indexFile = "" THEN JsUndefined ELSE JsString(indexFile)]

\* option maps that steer exec
ControlMaps ==
    { <<Entry("$gitDir", JsString("B")), Entry("$workTree", JsString("B")),
        Entry("$indexFile", JsString("B"))>>,
      <<Entry("$nullOnError", JsTrue)>>,
      <<Entry("$shell", JsTrue)>>,
      <<Entry("$spawn", JsTrue)>>,
      <<Entry("$onStdout", JsValue("function", "line => lines.push(line)"))>>,
      <<Entry("$trace", JsTrue)>>,
      <<Entry("porcelain", JsTrue)>> }

\* git options: keys of one and of more characters, every kind of value
OptionVals ==
    {JsTrue, JsFalse, JsValue("null", "null"), JsUndefined, JsString("x"),
     JsString(""), JsString("--format=x"), JsValue("number", "0"),
     JsArray(<<JsString("a"), JsTrue, JsFalse, JsString("b")>>)}

OptionMaps ==
    {<<Entry(k, v)>> : k \in {"n", "format"}, v \in OptionVals}
    \cup {<<Entry("n", v), Entry("format", w)>> : v \in OptionVals, w \in OptionVals}
    \cup {<<Entry("format", JsString("x")), Entry("n", JsValue("number", "0"))>>}

ControlArgs ==
    {ArgString("status"), ArgString(""), ArgNumber("0"), ArgNumber("1")}
    \cup {ArgMap(m) : m \in ControlMaps}

\* the argument lists exec is called with
ArgLists ==
    {<<a>> : a \in ControlArgs}
    \cup {<<a, b>> : a \in ControlArgs, b \in ControlArgs}
    \cup {<<ArgString("status"), a, b>> : a \in ControlArgs, b \in ControlArgs}
    \cup {<<ArgString("log"), ArgMap(m)>> : m \in OptionMaps}
    \cup {<<ArgMap(m), ArgString("log")>> : m \in OptionMaps}

\* how the child ends: its exit code and what it printed
ChildResults ==
    [code : {0, 1},
     stdout : { <<>>,
                <<Word("M"), NL>>,
                <<Sp, Word("M"), Sp, Word("test.txt"), NL>>,
                <<Word("a"), NL, Word("b")>> },
     stderr : {<<>>, <<Word("fatal"), NL>>}]

(***************************************************************************)
(* The trees the caller starts with, and what it calls.                    *)
(***************************************************************************)
\* the entries of one file in a tree's content: the file and the
\* directories above it
File(path, id) ==
    IF id = "" THEN {}
    ELSE {<<path, <<"100644", id>>>>}
         \cup {<<SubSeq(path, 1, i), <<"040000", "">>>> : i \in 1..(Len(path) - 1)}

Content(readme, main, key) ==
    File(<<"README.md">>, readme) \cup File(<<"src", "main.c">>, main)
    \cup File(<<"secrets", "key">>, key)

TargetTrees ==
    {Content("A", main, key) : main \in {"", "A"}, key \in {"", "A"}}

InputTrees ==
    {Content("A", "", ""), Content("A", "B", "B")}

SubtreePaths == {<<"src">>, <<"secrets">>}

\* the paths getSubtree is given: these, one below a directory that may be
\* there, one with two segments missing, a blob and one below a blob
WalkPaths ==
    SubtreePaths \cup {<<"src", "lib">>, <<"lib", "src">>, <<"README.md">>, <<"README.md", "src">>}

\* the flat trees buildTreeObject is given: no entry, one, and two
FlatTrees ==
    { {},
      {<<<<"README.md">>, <<"100644", "A">>>>},
      {<<<<"README.md">>, <<"100644", "A">>>>, <<<<"src", "main.c">>, <<"100644", "B">>>>} }

TopNames == {"README.md", "src"}

InnerNames == {"main.c", "key"}

\* files: ['*'], ['src/**'], ['!secrets/**'], ['**', '!secrets/**']
FilesChoices ==
    { <<>>,
      <<Pattern(FALSE, <<"*">>)>>,
      <<Pattern(FALSE, <<"src", GLOBSTAR>>)>>,
      <<Pattern(TRUE, <<"secrets", GLOBSTAR>>)>>,
      <<Pattern(FALSE, <<GLOBSTAR>>), Pattern(TRUE, <<"secrets", GLOBSTAR>>)>> }

Modes == {"overlay", "replace"}

\* a mode MergeOptions does not know
BadModes == {"union"}

NoCall == Call("none", "target", <<>>, "", NoOptions)

InitCaller ==
    /\ held = NoHandle
    /\ stack = <<>>
    /\ awaiting = 0
    /\ lastOp = [op |-> "none", root |-> "target", path |-> <<>>, name |-> "",
                 options |-> NoOptions, pre |-> NULL, outcome |-> "ok",
                 value |-> <<>>, prev |-> NoCall]
    /\ ops = 0
    /\ cache = {}
    /\ lsTrees = <<>>
    /\ mergeCall = [phase |-> "none", options |-> NoOptions, left |-> {}, count |-> 0]
    /\ subMerges = <<>>
    /\ jobs = <<>>

InitTree ==
    /\ InitBuilder
    /\ InitCaller
    /\ git = Config("", "", "")
    /\ run = NoRun
    /\ \E h \in TargetTrees : target = TreeObject(Str(h))
    /\ \E h \in InputTrees : input = TreeObject(Str(h))

TreeStep ==
    \/ \E r \in Roots : GetChildren(r)
    \/ \E r \in Roots, p \in WalkPaths, create \in BOOLEAN : GetSubtree(r, p, create)
    \/ \E r \in Roots, returnStack \in BOOLEAN : GetSubtreeDot(r, returnStack)
    \/ \E r \in Roots, n \in TopNames : DeleteChild(r, <<>>, n)
    \/ \E r \in Roots, p \in SubtreePaths, n \in InnerNames : DeleteChild(r, p, n)
    \/ \E p \in {<<>>} \cup SubtreePaths, files \in FilesChoices, mode \in Modes \cup BadModes :
            MergeOp(p, MergeOptions(files, mode))
    \/ \E r \in Roots, p \in {<<>>} \cup SubtreePaths : MergeSelfOp(r, p)
    \/ \E p \in {<<>>} \cup SubtreePaths : WriteCall(p)
    \/ WriteResume
    \/ \E n \in TopNames \cup InnerNames : DeleteChildDuringWrite(n)
    \/ \E tree \in FlatTrees : BuildOp(tree)
    \/ \E withGit \in BOOLEAN : ReadOp(withGit)

NextTree ==
    \/ TreeStep
    \/ BuilderStep
    \/ \E c \in KidIds : ChildDies(c)

SpecTree == InitTree /\ [][NextTree]_vars

\* the builder on its own: the caller submits entry lists, the trees rest
InitBatch ==
    /\ InitBuilder
    /\ InitCaller
    /\ git = Config("", "", "")
    /\ run = NoRun
    /\ target = NewTree
    /\ input = NewTree

NextBatch ==
    \/ \E entries \in EntryLists : Submit(entries)
    \/ BuilderStep
    \/ Shutdown

SpecBatch == InitBatch /\ [][NextBatch]_vars

\* exec on its own: one call on an instance, the builder and the trees rest
InitExec ==
    /\ InitBuilder
    /\ InitCaller
    /\ target = NewTree
    /\ input = NewTree
    /\ git \in {Config("", "", ""), Config("A", "", ""), Config("A", "A", "A")}
    /\ run = NoRun

NextExec ==
    \/ \E args \in ArgLists : ExecCall(args)
    \/ CaptureOutput
    \/ \E child \in ChildResults : ChildExits(child)
    \/ ExitCallback

SpecExec == InitExec /\ [][NextExec]_vars

(***************************************************************************)
(* BlobObject.write (lines 3-7): git.hashObject({ w, stdin, $spawn }) and  *)
(* captureOutputTrimmed(content) on the process it returns.                *)
(***************************************************************************)
\* lines 503-506: `if (input)` holds for no empty string
Fed(content) ==
    IF content # <<>> THEN [stdin |-> content, ended |-> TRUE]
    ELSE [stdin |-> <<>>, ended |-> FALSE]

\* line 4: git.hashObject({ w: true, stdin: true, $spawn: true })
HashObjectArgs ==
    <<ArgString("hash-object"),
      ArgMap(<<Entry("w", JsTrue), Entry("stdin", JsTrue), Entry("$spawn", JsTrue)>>)>>

\* lines 3-7, with exec up to the start of the child and captureOutput
\* (lines 477-510) called on the process
BlobWrite(content) ==
    LET plan == Exec(git, HashObjectArgs) IN
    /\ run.state = "none"
    /\ run' = [NoRun EXCEPT
                  !.state = "running",
                  !.args = HashObjectArgs,
                  !.callerArgs = HashObjectArgs,
                  !.argv = plan.argv,
                  !.indexFile = plan.indexFile,
                  !.mode = plan.mode,
                  !.nullOnError = plan.nullOnError,
                  !.returned = "process",
                  !.capture = TRUE,
                  !.trimmed = TRUE,
                  !.outcome = "pending",
                  !.input = content,
                  !.stdin = Fed(content).stdin,
                  !.ended = Fed(content).ended]
    /\ UNCHANGED <<builderVars, treeVars, loadVars, mergeVars, git>>

\* what is written as a blob: nothing, a word, a line, two lines
BlobContents ==
    {<<>>, <<Word("A")>>, <<Word("A"), NL>>, <<Word("A"), NL, Word("B"), NL>>}

InitBlob == InitExec

NextBlob ==
    \/ \E content \in BlobContents : BlobWrite(content)
    \/ \E child \in ChildResults : ChildExits(child)
    \/ ExitCallback

SpecBlob == InitBlob /\ [][NextBlob]_vars

(***************************************************************************)
(* Calls made on the roots without awaiting one another, as in             *)
(*   await Promise.all([tree.getChildren(), tree.getSubtree('lib', true)]) *)
(* A call that finds its tree unhydrated and its hash not in the cache     *)
(* stays suspended in _loadBaseChildren at `await git.lsTree(...)`, line   *)
(* 452, until its ls-tree returns; the others run meanwhile.               *)
(***************************************************************************)
MaxLoads == 3

\* cacheRead(hash), lines 382-388: the empty tree is never looked up
CacheRead(hash) == hash = Str(EMPTY_TREE_HASH) \/ hash \in cache

\* lines 489-503: the children are instantiated from what the cache holds for
\* the hash, _baseChildren is set, and _children is replaced by a new empty
\* object above it
Instantiated(t, hash) ==
    [t EXCEPT !.loaded = TRUE, !.base = BaseChildren(hash[1].h), !.children = EmptyMap]

\* what is left of a call once its tree is hydrated: getChildren returns
\* _children; getSubtree(name, true) goes on from line 540
Continued(t, op, name) ==
    IF op = "getSubtree" THEN Walk(t, <<name>>, TRUE).node ELSE t

\* tree.getChildren() or tree.getSubtree(name, true) on a root, the promise
\* left pending: lines 507-508 or 536-537, and _loadBaseChildren up to its
\* first await
LoadCall(r, op, name) ==
    LET tree == RootOf(r) IN
    /\ ops < MaxLoads
    /\ ops' = ops + 1
    /\ IF NeedsLoad(tree) /\ ~CacheRead(tree.hash)
       THEN /\ lsTrees' = Append(lsTrees, [root |-> r, hash |-> tree.hash, op |-> op,
                                           name |-> name, done |-> FALSE])
            /\ UNCHANGED <<target, input>>
       ELSE /\ SetRoot(r, Continued(Loaded(tree), op, name))
            /\ UNCHANGED lsTrees
    /\ UNCHANGED <<builderVars, execVars, mergeVars, cache, held, stack, awaiting, lastOp>>

\* the ls-tree of the i-th suspended call returns: lines 452-486 fill the
\* cache, lines 489-503 set the children, and the call goes on
LsTreeReturns(i) ==
    /\ i \in DOMAIN lsTrees
    /\ ~lsTrees[i].done
    /\ LET load == lsTrees[i] IN
       /\ cache' = cache \cup {load.hash}
       /\ SetRoot(load.root,
                  Continued(Instantiated(RootOf(load.root), load.hash), load.op, load.name))
    /\ lsTrees' = [lsTrees EXCEPT ![i].done = TRUE]
    /\ UNCHANGED <<builderVars, execVars, mergeVars, held, stack, awaiting, lastOp, ops>>

InitLoad == InitTree

NextLoad ==
    \/ \E r \in Roots : LoadCall(r, "getChildren", "")
    \/ \E r \in Roots, name \in {"lib", "src"} : LoadCall(r, "getSubtree", name)
    \/ \E i \in 1..MaxLoads : LsTreeReturns(i)

SpecLoad == InitLoad /\ [][NextLoad]_vars

(***************************************************************************)
(* target.merge(input, options) followed through its promises, lines       *)
(* 615-759. The loop collects the promise of each sub-merge it does not    *)
(* await (line 731) and subscribes the raising of this.dirty to it (lines  *)
(* 733-739) when this.dirty is not set yet; Promise.all subscribes to the  *)
(* same promises afterwards (line 758). A promise that fulfils queues its  *)
(* reactions in the order of subscription, and the jobs run one by one.    *)
(* A sub-merge is taken as Merge gives it, done when its promise fulfils,  *)
(* which it may do while the loop is suspended at the await of line 701.   *)
(***************************************************************************)
\* a sub-merge promise whose fulfilment queues its Promise.all element only
ReactionsAllOnly(sub) ==
    IF sub.all THEN <<[job |-> "element", name |-> sub.name]>> ELSE <<>>

\* the reactions of a sub-merge promise, in the order lines 733 and 758
\* subscribed them
Reactions(sub) ==
    (IF sub.then THEN <<[job |-> "raise", name |-> sub.name]>> ELSE <<>>)
    \o (IF sub.all THEN <<[job |-> "element", name |-> sub.name]>> ELSE <<>>)

\* Promise.all(subMerges), line 758, subscribes to each promise: one that is
\* fulfilled already queues its element at once
RECURSIVE Subscribed(_)
Subscribed(subs) ==
    IF subs = <<>> THEN <<>>
    ELSE (IF Head(subs).state = "fulfilled"
          THEN <<[job |-> "element", name |-> Head(subs).name]>> ELSE <<>>)
         \o Subscribed(Tail(subs))

\* lines 690-731 reach `baseChild.merge(...)` of line 731 with the child the
\* target has: the input child is a tree to take, the target child a tree,
\* the mode overlay
Collected(this, source, options, childName) ==
    LET inputChild == Child(source, childName)
        baseChild == Child(this, childName)
    IN
    /\ inputChild # NULL /\ IsTree(inputChild)
    /\ ~SamePath(baseChild, inputChild)
    /\ Verdict(options, ChildPath(<<>>, childName, inputChild), inputChild) # "skip"
    /\ baseChild # NULL /\ IsTree(baseChild)
    /\ options.mode # "replace"

\* merge() is called: lines 617-629
MergeCall(options) ==
    /\ mergeCall.phase = "none"
    /\ target' = Loaded(target)
    /\ input' = Loaded(input)
    /\ mergeCall' = [phase |-> "loop", options |-> options,
                     left |-> ChildNames(Loaded(input)), count |-> 0]
    /\ lastOp' = Done(Call("merge", "target", <<>>, "", options), target, "pending", <<>>)
    /\ UNCHANGED <<builderVars, execVars, loadVars, held, stack, awaiting, ops,
                   subMerges, jobs>>

\* one turn of the loop of lines 636-744
MergeLoopChild(childName) ==
    /\ mergeCall.phase = "loop"
    /\ childName \in mergeCall.left
    /\ mergeCall' = [mergeCall EXCEPT !.left = @ \ {childName}]
    /\ IF Collected(target, input, mergeCall.options, childName)
       THEN /\ subMerges' = Append(subMerges, [name |-> childName, then |-> ~target.dirty,
                                               all |-> FALSE, state |-> "pending"])
            /\ UNCHANGED <<target, input>>
       ELSE LET one == MergeChild(target, input, mergeCall.options, <<>>, childName) IN
            /\ target' = one.target
            /\ input' = one.input
            /\ UNCHANGED subMerges
    /\ UNCHANGED <<builderVars, execVars, loadVars, held, stack, awaiting, lastOp, ops, jobs>>

\* the loop is over: lines 747-758. Promise.all of no promise is fulfilled
\* at once
MergeReturns ==
    /\ mergeCall.phase = "loop"
    /\ mergeCall.left = {}
    /\ target' = IF mergeCall.options.mode = "replace"
                 THEN ClearUnmatched(target, input) ELSE target
    /\ mergeCall' = [mergeCall EXCEPT !.phase = "all", !.count = Len(subMerges)]
    /\ subMerges' = [i \in DOMAIN subMerges |-> [subMerges[i] EXCEPT !.all = TRUE]]
    /\ jobs' = IF subMerges = <<>> THEN Append(jobs, [job |-> "resolve", name |-> ""])
               ELSE jobs \o Subscribed(subMerges)
    /\ UNCHANGED <<builderVars, execVars, loadVars, input, held, stack, awaiting, lastOp,
                   ops>>

\* the promise of the i-th sub-merge fulfils
SubMergeDone(i) ==
    /\ mergeCall.phase \in {"loop", "all"}
    /\ i \in DOMAIN subMerges
    /\ subMerges[i].state = "pending"
    /\ LET childName == subMerges[i].name
           inputChild == Child(input, childName)
           sub == Merge(Child(target, childName), inputChild, mergeCall.options,
                        ChildPath(<<>>, childName, inputChild))
       IN /\ target' = SetInPlace(target, childName, sub.target)
          /\ input' = SetInPlace(input, childName, sub.input)
    /\ subMerges' = [subMerges EXCEPT ![i].state = "fulfilled"]
    /\ jobs' = jobs \o Reactions(subMerges[i])
    /\ UNCHANGED <<builderVars, execVars, loadVars, held, stack, awaiting, lastOp, ops,
                   mergeCall>>

\* the job at the head of the queue runs: the callback of lines 734-738,
\* the element function of Promise.all, or the resolution of the promise
\* merge() returned
RunJob ==
    /\ jobs # <<>>
    /\ LET head == Head(jobs) IN
       /\ target' = IF head.job = "raise" /\ Dirty(Child(target, head.name))
                    THEN [target EXCEPT !.dirty = TRUE] ELSE target
       /\ mergeCall' = IF head.job = "element" THEN [mergeCall EXCEPT !.count = @ - 1]
                       ELSE IF head.job = "resolve" THEN [mergeCall EXCEPT !.phase = "resolved"]
                       ELSE mergeCall
       /\ jobs' = IF head.job = "element" /\ mergeCall.count = 1
                  THEN Append(Tail(jobs), [job |-> "resolve", name |-> ""])
                  ELSE Tail(jobs)
       /\ lastOp' = IF head.job = "resolve" THEN [lastOp EXCEPT !.outcome = "ok"] ELSE lastOp
    /\ UNCHANGED <<builderVars, execVars, loadVars, input, held, stack, awaiting, ops,
                   subMerges>>

InitMerge == InitTree

NextMerge ==
    \/ \E files \in FilesChoices, mode \in Modes : MergeCall(MergeOptions(files, mode))
    \/ \E n \in TopNames \cup {"secrets"} : MergeLoopChild(n)
    \/ MergeReturns
    \/ \E i \in 1..3 : SubMergeDone(i)
    \/ RunJob

SpecMerge == InitMerge /\ [][NextMerge]_vars

(***************************************************************************)
(* C1: requests settle in submission order: of two requests, the one       *)
(* submitted later (the later call of mktreeBatch, which has the larger    *)
(* id) is never resolved or rejected before the other.                     *)
(***************************************************************************)
C1_SettleInSubmissionOrder ==
    \A i, j \in DOMAIN settled : i < j => settled[i].id < settled[j].id

(***************************************************************************)
(* C2: every request that is resolved is resolved with the one hash line   *)
(* the child emitted for its own batch: the hash a separate mktree run on  *)
(* the request's entries gives, whatever the number of requests            *)
(* outstanding and however the child's output is cut into data events.     *)
(* Stated for the runs in which one child, still running, serves every     *)
(* request and every request names at least one entry, where the child     *)
(* does emit one line for each batch.                                      *)
(***************************************************************************)
C2_ResolvedWithOwnHash ==
    (/\ Cardinality(Spawned) <= 1
     /\ \A c \in Spawned : kids[c].state = "running"
     /\ \A id \in DOMAIN requests : requests[id] # <<>>) =>
        \A i \in DOMAIN settled :
            settled[i].ok =>
                settled[i].value = Str(MktreeHash(requests[settled[i].id]))

(***************************************************************************)
(* What the claims about trees speak of.                                   *)
(***************************************************************************)
AllNodes == Nodes(target, <<>>) \cup Nodes(input, <<>>)

\* no tree at or below t was changed since it was read or written
Pristine(t) == \A n \in Nodes(t, <<>>) : ~n[2].dirty /\ n[2].children = EmptyMap

Tombstones(t) == {n \in DOMAIN t.children : t.children[n] = NULL}

\* the last call was op, has returned, and returned normally
Returned(op) == lastOp.op = op /\ lastOp.outcome = "ok"

\* the tree the last call was made on, as it is now
Callee == NodeAt(RootOf(lastOp.root), lastOp.path)

\* the step is the call of op
Calls(op) == ops' = ops + 1 /\ lastOp'.op = op

\* every child of t is a tombstone or a subtree that is the empty tree
AllGone(t) ==
    \A n \in ChildNames(t) :
        LET child == Child(t, n) IN
        child = NULL \/ (IsTree(child) /\ ~child.dirty /\ child.hash = Str(EMPTY_TREE_HASH))

\* a child that has read all it was given has printed one line for each
\* request written to it
InStep ==
    \A c \in KidIds :
        (kids[c].state = "running" /\ kids[c].stdin = <<>>) =>
            kids[c].printed = kids[c].written

UnderSecrets(p) == p[1][1] = "secrets"

NotSecrets == Pattern(TRUE, <<"secrets", GLOBSTAR>>)

(***************************************************************************)
(* C3: after target.merge(input, { mode: 'replace', files: ['**'] }) and   *)
(* then target.write(), the hash of the target (the value write() gave     *)
(* and the hash field) is the hash of the input.                           *)
(***************************************************************************)
C3_ReplaceThenWriteGivesInputHash ==
    (/\ Returned("write") /\ lastOp.root = "target" /\ lastOp.path = <<>>
     /\ lastOp.prev = Call("merge", "target", <<>>, "", MergeOptions(<<>>, "replace"))
     /\ Pristine(input)) =>
        (lastOp.value = input.hash /\ target.hash = input.hash)

(***************************************************************************)
(* C4: a tree that is not dirty has no tombstone and no pending entry in   *)
(* its overlay.                                                            *)
(***************************************************************************)
C4_CleanNodeHasNoOverlay ==
    \A n \in AllNodes : ~n[2].dirty => n[2].children = EmptyMap

(***************************************************************************)
(* C5: every tree on the path from the root to a dirty tree is dirty.      *)
(***************************************************************************)
C5_AncestorsOfDirtyAreDirty ==
    \A r \in Roots : \A n \in Nodes(RootOf(r), <<>>) :
        n[2].dirty =>
            \A i \in 0..(Len(n[1]) - 1) : NodeAt(RootOf(r), SubSeq(n[1], 1, i)).dirty

(***************************************************************************)
(* C6: write() on a dirty tree whose children are all tombstones or empty  *)
(* subtrees returns EMPTY_TREE_HASH and leaves the builder in step: the    *)
(* child has printed one hash for each request.                            *)
(***************************************************************************)
C6_EmptyWriteGivesEmptyTreeInStep ==
    (Returned("write") /\ lastOp.pre.dirty /\ AllGone(lastOp.pre)) =>
        (lastOp.value = Str(EMPTY_TREE_HASH) /\ InStep)

(***************************************************************************)
(* C7: write() on a tree that is not dirty returns the tree's hash at      *)
(* once, submits no request, spawns no child, and changes nothing of the   *)
(* tree or of the trees below it.                                          *)
(***************************************************************************)
C7_CleanWriteIsIdentity ==
    [][(Calls("write") /\ ~NodeAt(target, lastOp'.path).dirty) =>
          /\ lastOp'.outcome = "ok"
          /\ lastOp'.value = NodeAt(target, lastOp'.path).hash
          /\ UNCHANGED <<builderVars, target, input, held, stack, awaiting>>]_vars

\* write() was called on a clean tree that a replace-mode merge had left
\* with tombstones, and gave the hash the tree had
C7_CleanWriteDone ==
    /\ Returned("write")
    /\ ~lastOp.pre.dirty
    /\ lastOp.value = lastOp.pre.hash
    /\ Tombstones(lastOp.pre) # {}

(***************************************************************************)
(* C8: when write() on a dirty tree fails, because the builder rejects the *)
(* request of the tree or of a tree below it, the tree is still dirty, its *)
(* hash is the one it had, and its overlay is not folded into the base:    *)
(* the overlay has the entries and the tombstones it had (and the          *)
(* tombstone of a child deleted while the write was suspended, no other),  *)
(* the base the names it had.                                              *)
(***************************************************************************)
C8_FailedWriteLeavesNodeDirty ==
    (lastOp.op = "write" /\ lastOp.outcome = "rejected") =>
        LET since == IF "during" \in DOMAIN lastOp THEN {lastOp.during} ELSE {} IN
        /\ Callee.dirty
        /\ Callee.hash = lastOp.pre.hash
        /\ DOMAIN lastOp.pre.children \subseteq DOMAIN Callee.children
        /\ DOMAIN Callee.children \subseteq DOMAIN lastOp.pre.children \cup since
        /\ Tombstones(lastOp.pre) \subseteq Tombstones(Callee)
        /\ Tombstones(Callee) \subseteq Tombstones(lastOp.pre) \cup since
        /\ DOMAIN Callee.base = DOMAIN lastOp.pre.base

\* write() failed on a tree with entries in its overlay
C8_WriteRejected ==
    /\ lastOp.op = "write" /\ lastOp.outcome = "rejected"
    /\ lastOp.pre.children # EmptyMap

(***************************************************************************)
(* C9: an overlay merge with a files filter brings into the target only    *)
(* the blobs of the input whose path is matched by a pattern that is not   *)
(* negated: a blob in the result that no such pattern matches was in the   *)
(* target before, whichever way its directory came to be merged.           *)
(***************************************************************************)
C9_OnlyMatchedBlobsBroughtIn ==
    [][(Calls("merge") /\ lastOp'.options.mode = "overlay" /\ HasMatchers(lastOp'.options)) =>
          \A p \in ContentOf(NodeAt(target', lastOp'.path)) :
              p[2][1] # "040000" =>
                  \/ p \in ContentOf(lastOp'.pre)
                  \/ Matched(lastOp'.options.matchers, p[1])]_vars

(***************************************************************************)
(* C10 as stated: after target.merge(input, { files: ['!secrets/**'] })    *)
(* no path beginning with secrets/ is in the merged result.                *)
(***************************************************************************)
C10_NoSecretsInResult ==
    (Returned("merge") /\ lastOp.options.matchers = <<NotSecrets>>) =>
        \A p \in ContentOf(Callee) : ~UnderSecrets(p)

(***************************************************************************)
(* C10: after a merge whose files have the pattern !secrets/**, every path *)
(* beginning with secrets/ in the merged result was in the target before   *)
(* the merge, with the same mode and blob: the merge brings in none.       *)
(***************************************************************************)
C10_NoSecretsBroughtIn ==
    (Returned("merge") /\ \E i \in DOMAIN lastOp.options.matchers :
                              lastOp.options.matchers[i] = NotSecrets) =>
        \A p \in ContentOf(Callee) : UnderSecrets(p) => p \in ContentOf(lastOp.pre)

\* the input had secrets/, the target had not, and the merge brought in
\* other paths of the input
C10_SecretsLeftOut ==
    /\ Returned("merge")
    /\ \E i \in DOMAIN lastOp.options.matchers : lastOp.options.matchers[i] = NotSecrets
    /\ \E p \in ContentOf(input) : UnderSecrets(p)
    /\ \A p \in ContentOf(Callee) : ~UnderSecrets(p)
    /\ ContentOf(Callee) # ContentOf(lastOp.pre)

\* t and u have the same children: the same names, and at each name both
\* have nothing, or objects of one kind, one hash and one dirty flag
SameChildren(t, u) ==
    /\ ChildNames(t) = ChildNames(u)
    /\ DOMAIN t.children = DOMAIN u.children
    /\ \A n \in ChildNames(t) :
          LET a == Child(t, n)
              b == Child(u, n)
          IN IF a = NULL \/ b = NULL THEN a = b
             ELSE a.kind = b.kind /\ a.hash = b.hash /\ Dirty(a) = Dirty(b)

\* the tree the call made in this step was made on, as the step leaves it
CalleeAfter == NodeAt(IF lastOp'.root = "target" THEN target' ELSE input', lastOp'.path)

(***************************************************************************)
(* C11 as stated: t.merge(t, {}) leaves t not dirty, with the hash it had  *)
(* and the children it had.                                                *)
(***************************************************************************)
C11_SelfMergeLeavesClean ==
    [][Calls("mergeSelf") =>
          /\ ~CalleeAfter.dirty
          /\ CalleeAfter.hash = lastOp'.pre.hash
          /\ SameChildren(CalleeAfter, Loaded(lastOp'.pre))]_vars

(***************************************************************************)
(* C11: t.merge(t, {}) keeps the hash of t and changes no child of t: t    *)
(* has the names it had, in the overlay and over all, and at each name the *)
(* object it had there, with its hash, its content and its dirty flag. t   *)
(* is dirty afterwards exactly when it was dirty before or one of its      *)
(* children was.                                                           *)
(***************************************************************************)
C11_SelfMergeChangesNothing ==
    [][Calls("mergeSelf") =>
          /\ CalleeAfter.hash = lastOp'.pre.hash
          /\ SameChildren(CalleeAfter, Loaded(lastOp'.pre))
          /\ ContentOf(CalleeAfter) = ContentOf(Loaded(lastOp'.pre))
          /\ CalleeAfter.dirty =
                (lastOp'.pre.dirty
                 \/ \E n \in ChildNames(Loaded(lastOp'.pre)) :
                        Dirty(Child(Loaded(lastOp'.pre), n)))]_vars

\* a tree with a blob among its children was merged with itself
C11_SelfMerged ==
    /\ Returned("mergeSelf")
    /\ \E n \in ChildNames(Callee) : Child(Callee, n) # NULL /\ IsBlob(Child(Callee, n))

(***************************************************************************)
(* C12: a merge() whose options name an unknown mode fails before any work *)
(* is done: neither the target nor the input is changed by it, their       *)
(* hydration state (children loaded or not) included.                      *)
(***************************************************************************)
C12_BadModeChangesNothing ==
    [][(Calls("merge") /\ lastOp'.outcome = "throw") =>
          UNCHANGED <<target, input>>]_vars

(***************************************************************************)
(* C13: when the host is shut down while a batch child is live, the hook   *)
(* registered with the child does what cleanup() does: on that step the    *)
(* idle timer is cleared and the stdin of the child is ended.              *)
(***************************************************************************)
C13_ShutdownRunsCleanup ==
    [][(uncaught' = "shutdown" /\ uncaught = ""
          /\ proc # 0 /\ kids[proc].state = "running") => Cleanup]_vars

\* exec was called with the subcommand as its first argument
Subcommand == run.state # "none" /\ Head(run.args) = ArgString("status")

\* exec took the capture branch (execFile) or the shell branch
Captured == run.mode \in {"execFile", "shell"}

\* some option map of the call sets key to a truthy value
Asked(key) == \E i \in DOMAIN run.args : Truthy(Get(run.args[i].map, key))

\* some option map of the call has key
Carries(key) == \E i \in DOMAIN run.args : Has(run.args[i].map, key)

\* the keys beginning with '$' of the calls made here
DollarKeys == HandledKeys \cup {"$onStdout", "$onStderr", "$trace"}

\* the tokens cliOptionsToArgs makes of such a key
DollarTokens ==
    {"--" \o k : k \in DollarKeys}
    \cup {"--" \o k \o "=" \o v.s : k \in DollarKeys, v \in UNION {{e.val : e \in {m[i] : i \in DOMAIN m}} : m \in ControlMaps}}

(***************************************************************************)
(* C14: in capture and in shell mode a call that succeeds gives the stdout *)
(* of the child with the whitespace at its end removed and nothing else:   *)
(* whitespace at the start of the output is kept.                          *)
(***************************************************************************)
C14_OnlyTrailingWhitespaceRemoved ==
    (Subcommand /\ run.state = "done" /\ Captured
       /\ run.outcome = "resolved" /\ ~run.value.null) =>
        run.value.text = TrimEnd(run.child.stdout)

(***************************************************************************)
(* C15: in capture and in shell mode, when the child exits with a code     *)
(* other than 0 the call resolves with null if the caller set $nullOnError *)
(* and is rejected with an error carrying the code and the stderr text if  *)
(* not; when the child exits with code 0 the call resolves, and not with   *)
(* null.                                                                   *)
(***************************************************************************)
C15_ExitCodePolicy ==
    (Subcommand /\ run.state = "done" /\ Captured) =>
        IF run.child.code # 0
        THEN IF Asked("$nullOnError")
             THEN run.outcome = "resolved" /\ run.value.null
             ELSE /\ run.outcome = "rejected"
                  /\ run.error.code = run.child.code
                  /\ run.error.stderr = run.child.stderr
        ELSE run.outcome = "resolved" /\ ~run.value.null

\* what an argument after the subcommand adds to argv
RECURSIVE Encoded(_)
Encoded(args) ==
    IF args = <<>> THEN <<>>
    ELSE (IF Head(args).t = "object"
          THEN CliOptionsToArgs(Without(Head(args).map, DollarKeys))
          ELSE <<Head(args).s>>)
         \o Encoded(Tail(args))

\* the last n elements of s
Last(s, n) == SubSeq(s, Len(s) - n + 1, Len(s))

(***************************************************************************)
(* C16: for a call whose first argument is the subcommand, argv ends with  *)
(* the subcommand followed by every other argument in call order, a string *)
(* or number as itself (0 and the empty string included), an option map as *)
(* its encoding.                                                           *)
(***************************************************************************)
C16_ArgvKeepsEveryArgument ==
    (Subcommand /\ \A k \in DollarKeys \ HandledKeys : ~Carries(k)) =>
        LET tail == <<"status">> \o Encoded(Tail(run.args)) IN
        /\ Len(run.argv) >= Len(tail)
        /\ Last(run.argv, Len(tail)) = tail

(***************************************************************************)
(* C17: no key beginning with '$' of an option map of the call gives a     *)
(* token of argv.                                                          *)
(***************************************************************************)
C17_NoDollarKeyInArgv ==
    Subcommand => \A i \in DOMAIN run.argv : run.argv[i] \notin DollarTokens

\* the encoding of one value of a key, by kind of key and kind of value
Encoding(key, v) ==
    IF v = JsTrue
    THEN IF Len(key) = 1 THEN <<"-" \o key>> ELSE <<"--" \o key>>
    ELSE IF v.t \in {"string", "number"}
    THEN IF Len(key) = 1 THEN <<"-" \o key, v.s>> ELSE <<"--" \o key \o "=" \o v.s>>
    ELSE <<>>

RECURSIVE EncodingOfEach(_, _)
EncodingOfEach(key, vals) ==
    IF vals = <<>> THEN <<>>
    ELSE Encoding(key, Head(vals)) \o EncodingOfEach(key, Tail(vals))

RECURSIVE EncodingOfMap(_)
EncodingOfMap(map) ==
    IF map = <<>> THEN <<>>
    ELSE (IF Head(map).val.t = "array"
          THEN EncodingOfEach(Head(map).key, Head(map).val.items)
          ELSE Encoding(Head(map).key, Head(map).val))
         \o EncodingOfMap(Tail(map))

\* the call is the subcommand log and one map of git options, either first
PlainCall ==
    /\ run.state # "none"
    /\ \E m \in OptionMaps :
          run.args \in {<<ArgString("log"), ArgMap(m)>>, <<ArgMap(m), ArgString("log")>>}

PlainMap == (CHOOSE i \in DOMAIN run.args : run.args[i].t = "object")

(***************************************************************************)
(* C18: the tokens an option map adds to argv are, entry by entry in the   *)
(* order of the map: for a key of one character, '-k' for true and the two *)
(* tokens '-k', v for a string or number v; for a longer key, '--key' for  *)
(* true and the one token '--key=v' for a string or number v; nothing for  *)
(* false, null and undefined; for an array, the same for each element in   *)
(* order.                                                                  *)
(***************************************************************************)
C18_OptionEncoding ==
    PlainCall =>
        LET tokens == EncodingOfMap(run.args[PlainMap].map) IN
        /\ Len(run.argv) > Len(tokens)
        /\ Last(run.argv, Len(tokens)) = tokens
        /\ run.argv[Len(run.argv) - Len(tokens)] = "log"

\* exec was called with { n: [...], format: ... } holding 0, the empty
\* string, false and an array among its values
C18_OptionsEncoded ==
    /\ PlainCall
    /\ run.state = "done"
    /\ run.args[PlainMap].map =
          <<Entry("n", JsArray(<<JsString("a"), JsTrue, JsFalse, JsString("b")>>)),
            Entry("format", JsString(""))>>
    /\ Last(run.argv, 7) = <<"log", "-n", "a", "-n", "-n", "b", "--format=">>

(***************************************************************************)
(* C19: a call that carries $gitDir, $workTree and $indexFile runs git     *)
(* with them in --git-dir, --work-tree and GIT_INDEX_FILE, not with those  *)
(* of the instance, and leaves the option maps of the caller as they were. *)
(***************************************************************************)
C19_OverridesUsed ==
    (Subcommand /\ Carries("$gitDir")) =>
        /\ Includes(run.argv, "--git-dir=B") /\ ~Includes(run.argv, "--git-dir=A")
        /\ Includes(run.argv, "--work-tree=B") /\ ~Includes(run.argv, "--work-tree=A")
        /\ run.indexFile = JsString("B")
        /\ run.callerArgs = run.args

\* the lines of a text: the runs ended by a newline, and what follows the
\* last newline when it is not empty
RECURSIVE LinesOf(_, _)
LinesOf(text, line) ==
    IF text = <<>> THEN IF line = <<>> THEN <<>> ELSE <<line>>
    ELSE IF Head(text) = NL THEN <<line>> \o LinesOf(Tail(text), <<>>)
    ELSE LinesOf(Tail(text), Append(line, Head(text)))

(***************************************************************************)
(* C20: a call that carries $onStdout returns the process, and when the    *)
(* child has exited the callback has been given each line of its stdout    *)
(* once, in order.                                                         *)
(***************************************************************************)
C20_LineCallbacks ==
    (Subcommand /\ Carries("$onStdout")) =>
        /\ run.returned = "process"
        /\ run.state = "done" => run.delivered = LinesOf(run.child.stdout, <<>>)

\* the step reads back the hash write() gave for a tree buildTreeObject made
ReadsBackBuilt ==
    /\ Calls("read")
    /\ lastOp.op = "write" /\ lastOp.prev.op = "buildTreeObject"

(***************************************************************************)
(* C21: for any flat tree M, reading back the hash that write() gives for  *)
(* the tree built from M returns M.                                        *)
(***************************************************************************)
C21_BuildWriteReadRoundTrip ==
    [][ReadsBackBuilt =>
          /\ lastOp'.outcome = "ok"
          /\ lastOp'.tree = lastOp'.pre.own]_vars

\* the same entries, in whatever order of the keys
SameOptions(m1, m2) ==
    /\ Len(m1) = Len(m2)
    /\ {m1[i] : i \in DOMAIN m1} = {m2[i] : i \in DOMAIN m2}

\* the maps that encode to the argv of the call made
EncodeAlike(maps) ==
    {m \in maps : Exec(git, <<ArgString("log"), ArgMap(m)>>).argv = run.argv}

\* every value is true or a string that does not begin with '-'
TrueOrText(m) ==
    \A i \in DOMAIN m : m[i].val \in {JsTrue, JsString("x"), JsString("")}

(***************************************************************************)
(* C22: two option maps that differ, other than in the order of their keys, *)
(* never encode to the same argv.                                          *)
(***************************************************************************)
C22_EncoderInjective ==
    PlainCall =>
        \A m \in EncodeAlike(OptionMaps) : SameOptions(m, run.args[PlainMap].map)

(***************************************************************************)
(* C22, amended: two option maps whose values are all true or a string     *)
(* that does not begin with '-', and that differ other than in the order   *)
(* of their keys, never encode to the same argv.                           *)
(***************************************************************************)
C22_EncoderInjectiveOnTrueAndText ==
    (PlainCall /\ TrueOrText(run.args[PlainMap].map)) =>
        \A m \in EncodeAlike({o \in OptionMaps : TrueOrText(o)}) :
            SameOptions(m, run.args[PlainMap].map)

\* exec was called with { n: 'x', format: true }, and { n: true }, { n: '' }
\* and { format: true } encode to something else
C22_TextAndFlagEncoded ==
    /\ PlainCall
    /\ run.state = "done"
    /\ run.args[PlainMap].map = <<Entry("n", JsString("x")), Entry("format", JsTrue)>>
    /\ Last(run.argv, 3) = <<"-n", "x", "--format">>
    /\ EncodeAlike(OptionMaps) = {run.args[PlainMap].map}

\* the children that run
Live == {c \in KidIds : kids[c].state = "running"}

(***************************************************************************)
(* C23: at most one `mktree --batch` child is live at any time, also when  *)
(* two or more calls of mktreeBatch are made while no child is set.        *)
(***************************************************************************)
C23_OneLiveChild == Cardinality(Live) <= 1

\* request id has been resolved or rejected
Settled(id) == \E i \in DOMAIN settled : settled[i].id = id

\* every child spawned has exited, its exit has been seen and its output
\* read, and no call is suspended: no callback is left to settle a request
AllOver ==
    /\ Alive /\ calls = <<>>
    /\ Spawned # {}
    /\ \A c \in Spawned : kids[c] = Gone

(***************************************************************************)
(* C24: no request is left pending for ever: when every child has exited   *)
(* and all its events have been handled, every request made has been       *)
(* resolved or rejected.                                                   *)
(***************************************************************************)
C24_NoneLeftPending == AllOver => \A id \in DOMAIN requests : Settled(id)

\* the step is the exit callback of child c
ExitSeen(c) == ~kids[c].exitSeen /\ kids'[c].exitSeen

(***************************************************************************)
(* C25: the exit callback settles the request at the head of the queue by  *)
(* the exit code: code 0 resolves it with the trimmed stdout accumulated    *)
(* for it, any other code rejects it with the code, the stderr and the     *)
(* trimmed stdout accumulated for it.                                      *)
(***************************************************************************)
C25_HeadSettledByExitCode ==
    [][\A c \in KidIds :
          (ExitSeen(c) /\ queue # <<>>) =>
              /\ Len(settled') = Len(settled) + 1
              /\ LET job == queue[1]
                     s == settled'[Len(settled')]
                 IN /\ s.id = job.id
                    /\ s.value = Trim(job.output)
                    /\ IF kids[c].code = 0
                       THEN s.ok
                       ELSE ~s.ok /\ s.code = kids[c].code /\ s.error = job.error]_vars

\* a request has been rejected with the code and the stderr of a child
C25_HeadRejectedByExit ==
    \E i \in DOMAIN settled :
        ~settled[i].ok /\ settled[i].code = 128 /\ settled[i].error = <<"fatal">>

\* the step resumes the one suspended call, whose child is the only one
\* that has not exited, after a child has exited
Respawn ==
    /\ Len(calls) = 1 /\ calls' = <<>>
    /\ \E d \in Spawned : kids[d].exitSeen
    /\ \A d \in Spawned \ {Head(calls).kid} : kids[d].state = "exited" /\ kids[d].exitSeen

(***************************************************************************)
(* C26: the call made after the child has exited is served by the fresh    *)
(* child it spawns: when it has written its request, its job is the head   *)
(* of the queue, with no job of the dead child before it.                  *)
(***************************************************************************)
C26_FreshChildServesOwnRequest ==
    [][Respawn => queue' = <<NewJob(Head(calls).id)>>]_vars

\* the step is stdin.end() on child c
EndsStdin(c) == ~kids[c].ended /\ kids'[c] = [kids[c] EXCEPT !.ended = TRUE]

\* the step pushes the job of request id: lines 274-289 have run for it
Pushes(id) == queue' = Append(queue, NewJob(id))

(***************************************************************************)
(* C27: at most one idle timer is pending; each request written leaves the *)
(* timer it armed as the only one, and no other step arms one: the timer   *)
(* that ends stdin was armed by the last request written.                  *)
(***************************************************************************)
C27_OneTimerArmedByLastRequest ==
    [][/\ Cardinality(timer'.pending) <= 1
       /\ \A id \in DOMAIN requests' : Pushes(id) => timer'.pending = {id}
       /\ (\A id \in DOMAIN requests' : ~Pushes(id)) =>
              timer'.pending \subseteq timer.pending
       /\ \A c \in KidIds :
              EndsStdin(c) =>
                  /\ timer.pending = {timer.handle}
                  /\ timer'.pending = {}]_vars

\* the timer the second request armed has ended the stdin of the child
C27_TimerEndedStdin ==
    /\ Alive
    /\ \E c \in KidIds : kids[c].ended /\ kids[c].written = 2
    /\ timer = [handle |-> 2, pending |-> {}]

(***************************************************************************)
(* C28: no request is written to a child whose stdin has been ended.       *)
(***************************************************************************)
C28_NoWriteAfterEnd ==
    [][\A c \in KidIds : kids'[c].written > kids[c].written => ~kids[c].ended]_vars

(***************************************************************************)
(* C29: no callback of the child and no timer callback dereferences a      *)
(* missing head of the queue or a missing child.                           *)
(***************************************************************************)
C29_CallbacksFindJobAndChild == uncaught # "TypeError"

\* the step is the return of a write() during which a child was deleted
ResolvesAfterDelete ==
    /\ lastOp.op = "write" /\ lastOp.outcome = "pending"
    /\ "during" \in DOMAIN lastOp
    /\ lastOp'.outcome = "ok"

(***************************************************************************)
(* C30: a child deleted from a tree while the write() of the tree is       *)
(* suspended is not lost: when the write() resolves the tree is dirty, or  *)
(* the hash it has and returns names no entry of the deleted child.        *)
(***************************************************************************)
C30_MutationDuringWriteNotLost ==
    [][ResolvesAfterDelete =>
          LET node == NodeAt(target', lastOp.path) IN
          \/ node.dirty
          \/ /\ node.hash = lastOp'.value
             /\ IsHash(lastOp'.value)
             /\ \A p \in lastOp'.value[1].h : p[1][1] # lastOp.during]_vars

\* the names of the children of t that are not deleted
Visible(t) == {n \in ChildNames(t) : Child(t, n) # NULL}

\* the step is the successful return of a write() that had a request made
WriteSucceeds ==
    lastOp.op = "write" /\ lastOp.outcome = "pending" /\ lastOp'.outcome = "ok"

(***************************************************************************)
(* C31: when the write() of a dirty tree succeeds, the tree is not dirty,  *)
(* its hash is what the builder gave, its overlay has no entry of its own, *)
(* every entry the overlay had is folded into the base (a tombstone        *)
(* removes the name, any other entry takes its place), and the names of    *)
(* the children it shows are those it showed before the write (less the    *)
(* child deleted while the write was suspended).                           *)
(***************************************************************************)
C31_WriteFlushesOverlay ==
    [][WriteSucceeds =>
          LET before == NodeAt(target, lastOp.path)
              after == NodeAt(target', lastOp.path)
              since == IF "during" \in DOMAIN lastOp THEN {lastOp.during} ELSE {}
          IN
          /\ ~after.dirty
          /\ after.hash = Settlement.value
          /\ lastOp'.value = Settlement.value
          /\ after.children = EmptyMap
          /\ \A n \in DOMAIN before.children :
                IF before.children[n] = NULL
                THEN n \notin DOMAIN after.base
                ELSE n \in DOMAIN after.base /\ after.base[n] = before.children[n]
          /\ \A n \in DOMAIN before.base \ DOMAIN before.children :
                n \in DOMAIN after.base /\ after.base[n] = before.base[n]
          /\ Visible(after) = Visible(before)
          /\ Visible(after) = Visible(lastOp.pre) \ since]_vars

\* a write() has succeeded on a tree that had a tombstone in its overlay
\* and shows a child still, and left it clean with the name gone
C31_OverlayFolded ==
    /\ Returned("write")
    /\ lastOp.pre.dirty
    /\ Tombstones(lastOp.pre) # {}
    /\ Visible(Callee) # {}
    /\ ~Callee.dirty /\ Callee.children = EmptyMap
    /\ Tombstones(lastOp.pre) \cap DOMAIN Callee.base = {}

\* the names of the children the content of t has: those of its overlay
\* and, under them, those the tree its hash names has
HasChild(t, name) ==
    IF name \in DOMAIN t.children THEN t.children[name] # NULL
    ELSE IF t.loaded THEN name \in DOMAIN t.base
    ELSE IsHash(t.hash) /\ name \in LsNames(t.hash[1].h)

(***************************************************************************)
(* C32: deleteChild(name) on a tree whose content has a child `name`,      *)
(* hydrated or not, leaves a tombstone at the name and the tree dirty; on  *)
(* a tree that has no such child it changes nothing.                       *)
(***************************************************************************)
C32_DeleteChildTombstones ==
    [][Calls("deleteChild") =>
          IF HasChild(lastOp'.pre, lastOp'.name)
          THEN /\ CalleeAfter.dirty
               /\ lastOp'.name \in Tombstones(CalleeAfter)
          ELSE CalleeAfter = lastOp'.pre]_vars

\* the child `name` of t as a walk sees it, which hydrates t first
Seen(t, name) == Child(IF NeedsLoad(t) /\ CanLoad(t) THEN LoadBaseChildren(t) ELSE t, name)

\* the number of the first segment of segs, walking down from t, that names
\* no child or a deleted one; 0 when every segment names a child and the
\* walk meets no blob on its way, -1 when it does
RECURSIVE FirstMissing(_, _)
FirstMissing(t, segs) ==
    IF segs = <<>> THEN 0
    ELSE IF ~IsTree(t) THEN -1
    ELSE LET c == Seen(t, Head(segs)) IN
         IF c = NULL THEN 1
         ELSE LET r == FirstMissing(c, Tail(segs)) IN
              IF r <= 0 THEN r ELSE r + 1

\* for every tree at or below t, where it is, whether it is dirty and the
\* names in its overlay
RECURSIVE Flags(_)
Flags(t) ==
    {<<<<>>, t.dirty, DOMAIN t.children>>}
    \cup UNION {{<<<<n>> \o f[1], f[2], f[3]>> : f \in Flags(Child(t, n))} :
                   n \in {m \in Visible(t) : IsTree(Child(t, m))}}

\* the tree the call made in this step was made from, as the step leaves it
RootAfter == IF lastOp'.root = "target" THEN target' ELSE input'

(***************************************************************************)
(* C33: getSubtree(path, true) on a path with a missing or deleted segment *)
(* puts a new empty tree at that segment and at every later one, leaves    *)
(* every tree of the walk dirty, from the receiver to the parent of the     *)
(* last tree created, and returns that last tree; getSubtree(path, false)  *)
(* on such a path returns null and changes no dirty flag and no overlay.   *)
(***************************************************************************)
C33_GetSubtreeCreates ==
    [][(Calls("getSubtree") /\ lastOp'.path # Dot
          /\ FirstMissing(lastOp'.pre, lastOp'.path) > 0) =>
          LET segs == lastOp'.path
              k == FirstMissing(lastOp'.pre, segs)
          IN
          IF lastOp'.name = "create"
          THEN /\ lastOp'.outcome = "tree"
               /\ held' = [root |-> lastOp'.root, path |-> segs]
               /\ NodeAt(RootAfter, segs) = NewTree
               /\ \A i \in 0..(Len(segs) - 1) :
                     LET tree == NodeAt(RootAfter, SubSeq(segs, 1, i)) IN
                     /\ tree.dirty
                     /\ i >= k => /\ tree.hash = Str(EMPTY_TREE_HASH)
                                  /\ Visible(tree) = {segs[i + 1]}
          ELSE /\ lastOp'.outcome = "null"
               /\ Flags(lastOp'.pre) \subseteq Flags(RootAfter)
               /\ \A f \in Flags(RootAfter) \ Flags(lastOp'.pre) : ~f[2] /\ f[3] = {}]_vars

\* getSubtree('lib/src', true) made lib and lib/src in a tree that had
\* neither, and getSubtree('src/lib', true) made lib below the src there was
C33_SubtreesCreated ==
    /\ lastOp.op = "getSubtree" /\ lastOp.name = "create" /\ lastOp.outcome = "tree"
    /\ \/ /\ lastOp.path = <<"lib", "src">>
          /\ NodeAt(RootOf(lastOp.root), <<"lib">>).dirty
       \/ /\ lastOp.path = <<"src", "lib">>
          /\ FirstMissing(lastOp.pre, lastOp.path) = 2
    /\ RootOf(lastOp.root).dirty
    /\ Callee = NewTree

(***************************************************************************)
(* C34: getSubtree('.') returns the receiver itself, or the one-element    *)
(* stack [receiver] when returnStack is set, for both values of            *)
(* returnStack, and neither hydrates nor changes the tree.                 *)
(***************************************************************************)
C34_DotIsReceiver ==
    [][(Calls("getSubtree") /\ lastOp'.path = Dot) =>
          /\ lastOp'.outcome = (IF lastOp'.name = "stack" THEN "stack" ELSE "tree")
          /\ RootAfter = lastOp'.pre
          /\ UNCHANGED <<target, input>>]_vars

(***************************************************************************)
(* C35: getSubtree never returns a blob and never fails because a segment  *)
(* of the path names a blob: whatever the path and the tree, the walk      *)
(* gives null or a tree.                                                   *)
(***************************************************************************)
C35_WalkGivesTreeOrNull ==
    [][(Calls("getSubtree") /\ lastOp'.path # Dot /\ FirstMissing(lastOp'.pre, lastOp'.path) < 0) =>
          lastOp'.outcome \in {"tree", "null"}]_vars

\* the last call was a getSubtree that made the tree it returned
MadeSubtree ==
    /\ lastOp.op = "getSubtree" /\ lastOp.name = "create" /\ lastOp.outcome = "tree"
    /\ lastOp.path # Dot
    /\ FirstMissing(lastOp.pre, lastOp.path) > 0

(***************************************************************************)
(* C36, as claimed: a tree constructed without a hash is unhydrated and    *)
(* dirty, with getWrittenHash() null; a tree constructed with a hash is    *)
(* unhydrated and clean.                                                   *)
(***************************************************************************)
C36_NoHashStartsDirty ==
    /\ \A r \in Roots : ~RootOf(r).loaded /\ ~RootOf(r).dirty
    /\ [](MadeSubtree =>
             /\ ~Callee.loaded
             /\ Callee.dirty
             /\ GetWrittenHash(Callee) = <<>>)

(***************************************************************************)
(* C36, amended: a tree constructed without a hash is unhydrated and       *)
(* clean, its hash EMPTY_TREE_HASH, which getWrittenHash() returns; a tree *)
(* constructed with a hash is unhydrated and clean, and getWrittenHash()   *)
(* returns that hash.                                                      *)
(***************************************************************************)
C36_NoHashStartsCleanAndEmpty ==
    /\ \A r \in Roots :
          /\ ~RootOf(r).loaded /\ ~RootOf(r).dirty
          /\ RootOf(r).children = EmptyMap
          /\ IsHash(RootOf(r).hash)
          /\ GetWrittenHash(RootOf(r)) = RootOf(r).hash
    /\ [](MadeSubtree =>
             /\ ~Callee.loaded
             /\ ~Callee.dirty
             /\ Callee.children = EmptyMap
             /\ Callee.hash = Str(EMPTY_TREE_HASH)
             /\ GetWrittenHash(Callee) = Str(EMPTY_TREE_HASH))

\* getSubtree('src', true) made src in a tree constructed from the hash of a
\* tree without one, and the tree made has the hash of the empty tree
C36_TreeMadeWithoutHash ==
    /\ MadeSubtree
    /\ lastOp.path = <<"src">>
    /\ lastOp.prev.op = "none"
    /\ IsHash(lastOp.pre.hash) /\ lastOp.pre.hash # Str(EMPTY_TREE_HASH)
    /\ GetWrittenHash(Callee) = Str(EMPTY_TREE_HASH)

(***************************************************************************)
(* C37: a tree is hydrated at most once and git ls-tree runs at most once  *)
(* for each hash: none is started for a hash the cache holds or for the    *)
(* empty tree, also when two trees with the same hash, or two calls on the *)
(* same tree, hydrate at the same time; and a second hydration of a tree   *)
(* never drops the overlay entries set since the first.                    *)
(***************************************************************************)
C37_HydratedOnce ==
    /\ [](\A i, j \in DOMAIN lsTrees : lsTrees[i].hash = lsTrees[j].hash => i = j)
    /\ [][/\ Len(lsTrees') > Len(lsTrees) => ~CacheRead(lsTrees'[Len(lsTrees')].hash)
          /\ \A r \in Roots :
                RootOf(r).loaded =>
                   DOMAIN RootOf(r).children \subseteq
                      DOMAIN (IF r = "target" THEN target' ELSE input').children]_vars

\* the part of C37 about the overlay alone
C37_OverlayKept ==
    [][\A r \in Roots :
          RootOf(r).loaded =>
             DOMAIN RootOf(r).children \subseteq
                DOMAIN (IF r = "target" THEN target' ELSE input').children]_vars

\* the promise merge() returned is resolved
MergeResolved == mergeCall.phase = "resolved"

(***************************************************************************)
(* C38: when the promise merge() returned resolves, every sub-merge has    *)
(* raised the dirty flag it had to raise, whether awaited in the loop or   *)
(* collected and awaited with the others: if a subtree of the target is    *)
(* dirty, so is the target, and the target is as the merge taken in one    *)
(* step leaves it.                                                         *)
(***************************************************************************)
C38_DirtyRaisedBeforeResolve ==
    MergeResolved =>
       /\ \A n \in Visible(target) : Dirty(Child(target, n)) => target.dirty
       /\ target = Merge(lastOp.pre, TreeObject(input.hash), lastOp.options, <<>>).target

\* a merge resolved whose loop left the target clean, collected two
\* sub-merges and subscribed the raising of dirty to both
C38_RaisedByReaction ==
    /\ MergeResolved
    /\ Len(subMerges) = 2
    /\ \A i \in DOMAIN subMerges : subMerges[i].then
    /\ \E i \in DOMAIN subMerges : Dirty(Child(target, subMerges[i].name))
    /\ target.dirty

\* this step is a merge in overlay mode that returned normally
OverlayMerge ==
    /\ Calls("merge")
    /\ lastOp'.options.mode = "overlay"
    /\ lastOp'.outcome = "ok"

(***************************************************************************)
(* C39: a merge in overlay mode neither tombstones nor removes a child of  *)
(* the target: every name the target shows before the merge it shows       *)
(* after it, and a child of the target whose name is not that of a live    *)
(* child of the input is left as it was.                                   *)
(***************************************************************************)
C39_OverlayKeepsTargetChildren ==
    [][OverlayMerge =>
          LET before == Loaded(lastOp'.pre)
              after == CalleeAfter
          IN
          /\ Visible(before) \subseteq Visible(after)
          /\ Tombstones(after) \subseteq Tombstones(before)
          /\ \A n \in Visible(before) :
                Seen(input, n) = NULL => Child(after, n) = Child(before, n)]_vars

\* an overlay merge without a filter, onto a target with a child the input
\* lacks and a child the input has with other content, left the first as it
\* was and changed the second
C39_OverlayMergedAround ==
    /\ Returned("merge")
    /\ lastOp.options.mode = "overlay"
    /\ \E n \in Visible(Loaded(lastOp.pre)) :
          Child(input, n) = NULL /\ Child(Callee, n) = Child(Loaded(lastOp.pre), n)
    /\ \E n \in Visible(Loaded(lastOp.pre)) :
          Child(input, n) # NULL /\ Child(Callee, n) # Child(Loaded(lastOp.pre), n)

\* BlobObject.write was called
BlobWritten == run.state # "none" /\ run.trimmed

(***************************************************************************)
(* C40: BlobObject.write(content) writes the content to the standard input *)
(* of a spawned `hash-object -w --stdin` and ends that input, whatever the *)
(* content, the empty string included, so that the child ends and the call *)
(* resolves to the hash it printed, trimmed.                               *)
(***************************************************************************)
C40_WriteFeedsAndEndsStdin ==
    BlobWritten =>
       /\ run.mode = "spawn"
       /\ Includes(run.argv, "hash-object") /\ Includes(run.argv, "-w")
       /\ ReadsStdin(run.argv)
       /\ run.stdin = run.input
       /\ run.ended
       /\ (run.state = "done" /\ run.child.code = 0) =>
             run.outcome = "resolved" /\ run.value.text = Trim(run.child.stdout)

====
